---- MODULE Spec2Model ----
(***************************************************************************)
(* Per-camera detection-to-alert pipelines of kbs_qc_ai_camera.            *)
(*                                                                         *)
(* The repository holds several independent Flask programs.  Each is a    *)
(* process of its own, so a behaviour of this module is a run of ONE of    *)
(* them; the variable app says which one.                                  *)
(*   "helmet" : src/web_helmet_app.py          (single camera, PASS/FAIL)  *)
(*   "truck"  : src/web_truck_plat_ocr_app.py  (trucks + plates + OCR)     *)
(*   "roi"    : src/basic python/opencv5.py    (helmet app with ROI)       *)
(*   "plate"  : src/web_plate_only_app.py      (plate OCR, OK / BROKEN)    *)
(*                                                                         *)
(* Time is time.time() in whole seconds.  Confidences are in hundredths.   *)
(* Text (labels, OCR fragments) is a sequence of one-character strings.    *)
(***************************************************************************)
EXTENDS Integers, Sequences, FiniteSets, TLC

VARIABLES
    app,                      \* which program this run is
    clock,                    \* time.time()
    \* ---- web_helmet_app.py globals ----
    frame_idx,                \* generate_frames local, lives across iterations
    detect_enabled,           \* state["detect_enabled"]
    snapshot_interval_sec,    \* state["snapshot_interval_sec"]
    send_mode,                \* send_config["mode"]
    last_pass_ts,
    last_fail_ts,
    last_snapshot_ts,
    last_frame_for_snapshot,
    last_helmet_count,
    last_no_helmet_count,
    total_helmet_count,
    total_no_helmet_count,
    last_status,
    h_op,                     \* observation: what the last operation did
    h_fire_ts,                \* observation: time of the last auto snapshot
    h_fires,                  \* observation: number of auto snapshots so far
    h_loop,                   \* the generate_frames generator: where it stands
    \* ---- web_truck_plat_ocr_app.py ----
    truck,                    \* the per-camera dictionaries, one record per camera
    tk_frame_idx,             \* frame_idx of the generate_frames loop of each camera
    tk_op,                    \* observation: what the last operation did
    tk_obs,                   \* observation: per camera, auto snapshots and presence
    \* ---- basic python/opencv5.py ----
    roi_cam,                  \* the per-camera dictionaries, one record per camera
    r_frame_idx,              \* frame_idx of the generate_frames loop of each camera
    r_op,                     \* observation: what the last operation did
    \* ---- web_plate_only_app.py (its only camera, cam1) ----
    plate,                    \* the dictionaries' entries of cam1, as one record
    p_frame_i,                \* frame_i of the generate_frames loop
    p_op,                     \* observation: what the last operation did
    \* ---- a function of one of the programs applied to an input ----
    fn,                       \* the input and, once applied, the result
    \* ---- the threaded server (app.run(..., threaded=True)) ----
    handlers                  \* request threads followed statement by statement

hvars == <<frame_idx, detect_enabled, snapshot_interval_sec, send_mode,
           last_pass_ts, last_fail_ts, last_snapshot_ts, last_frame_for_snapshot,
           last_helmet_count, last_no_helmet_count, total_helmet_count,
           total_no_helmet_count, last_status, h_op, h_fire_ts, h_fires, h_loop>>

tvars == <<truck, tk_frame_idx, tk_op, tk_obs>>

rvars == <<roi_cam, r_frame_idx, r_op>>

pvars == <<plate, p_frame_i, p_op>>

\* the variables each program leaves alone: those of the other programs
notHelmet == <<tvars, rvars, pvars, fn, handlers>>
notTruck == <<hvars, rvars, pvars, fn, handlers>>
notRoi == <<hvars, tvars, pvars, fn, handlers>>
notPlate == <<hvars, tvars, rvars, fn, handlers>>

vars == <<app, clock, hvars, tvars, rvars, pvars, fn, handlers>>

-----------------------------------------------------------------------------
(* Bounds of the model *)

\* time.time() at process start, in seconds; the epoch clock is far beyond
\* every snapshot interval
StartTime == 100
\* frames read by one generate_frames loop
MaxFrames == 4

-----------------------------------------------------------------------------
(* Values shared by the programs *)

\* Python None for a timestamp that is not set
None == -1
\* last_frame_for_snapshot = None
NoFrame == 0

Max(a, b) == IF a >= b THEN a ELSE b
Min(a, b) == IF a <= b THEN a ELSE b

\* str.lower() on the characters the labels use
LowerChar(c) ==
    CASE c = "N" -> "n"
      [] c = "O" -> "o"
      [] c = "H" -> "h"
      [] OTHER -> c

Lower(s) == [i \in 1..Len(s) |-> LowerChar(s[i])]

\* Python's  sub in s  on strings
Contains(sub, s) ==
    \E i \in 1..(Len(s) - Len(sub) + 1) : SubSeq(s, i, i + Len(sub) - 1) = sub

s_no_hardhat == <<"n","o","_","h","a","r","d","h","a","t">>
s_hardhat == <<"h","a","r","d","h","a","t">>
s_helmet == <<"h","e","l","m","e","t">>
s_no == <<"n","o">>
s_person == <<"p","e","r","s","o","n">>
s_gloves == <<"g","l","o","v","e","s">>

\* the decimal digits
DigitChars == <<"0","1","2","3","4","5","6","7","8","9">>

\* seconds that pass between two frames of one camera (cap.read() blocks until
\* the next frame; only the frame loop reads the clock)
FrameGaps == {0, 1, 10}

\* no function is being applied
NoFn == [f |-> "none", arg |-> <<>>, out |-> <<>>]

\* request threads followed statement by statement
MaxHandlers == 2

\* frames read by the generate_frames loop of a second client
MaxClientFrames == 2

\* the generate_frames generator of web_helmet_app.py at the top of its
\* while-loop (pc "read"), between the reading of state[...] and the decision
\* (pc "detect", local holding the iteration's locals), or finished (pc "done")
LoopAt(pc, local) == [pc |-> pc, local |-> local]

\* no request has arrived yet
NoHandlers == [i \in 1..MaxHandlers |-> LoopAt("idle", <<>>)]

\* the variables of a program that is not the one running
HelmetIdle ==
    /\ frame_idx = 0
    /\ detect_enabled = FALSE
    /\ snapshot_interval_sec = 0
    /\ send_mode = ""
    /\ last_pass_ts = None
    /\ last_fail_ts = None
    /\ last_snapshot_ts = 0
    /\ last_frame_for_snapshot = NoFrame
    /\ last_helmet_count = 0
    /\ last_no_helmet_count = 0
    /\ total_helmet_count = 0
    /\ total_no_helmet_count = 0
    /\ last_status = <<>>
    /\ h_op = <<>>
    /\ h_fire_ts = None
    /\ h_fires = 0
    /\ h_loop = LoopAt("read", <<>>)

TruckIdle ==
    /\ truck = <<>>
    /\ tk_frame_idx = <<>>
    /\ tk_op = <<>>
    /\ tk_obs = <<>>

RoiIdle ==
    /\ roi_cam = <<>>
    /\ r_frame_idx = <<>>
    /\ r_op = <<>>

PlateIdle ==
    /\ plate = <<>>
    /\ p_frame_i = 0
    /\ p_op = <<>>

-----------------------------------------------------------------------------
(* web_helmet_app.py *)

RUN_EVERY_N == 2
PASS_SEC == 2
FAIL_SEC == 2
BOX_CONF_FILTER == 65
SNAPSHOT_INTERVAL_OPTIONS == {10, 30, 60}
DEFAULT_SNAPSHOT_INTERVAL == 30

\* helmet_model.names, the classes the header lists (ids as in the list)
CLASS_NAMES ==
    (0 :> s_gloves) @@ (1 :> s_hardhat) @@ (3 :> s_no_hardhat) @@ (6 :> s_person)

PERSON_IDS == {cid \in DOMAIN CLASS_NAMES : Contains(s_person, Lower(CLASS_NAMES[cid]))}

\* the branch a class name takes in the loop that builds the ID sets:
\* NO_HELMET_IDS (if), HELMET_IDS (elif) or neither
HelmetNameKind(cname) ==
    LET name == Lower(cname) IN
    IF Contains(s_no_hardhat, name) \/ (Contains(s_no, name) /\ Contains(s_helmet, name))
    THEN "no_helmet"
    ELSE IF Contains(s_hardhat, name) \/ Contains(s_helmet, name)
    THEN "helmet"
    ELSE "other"

NO_HELMET_IDS == {cid \in DOMAIN CLASS_NAMES : HelmetNameKind(CLASS_NAMES[cid]) = "no_helmet"}

HELMET_IDS == {cid \in DOMAIN CLASS_NAMES : HelmetNameKind(CLASS_NAMES[cid]) = "helmet"}

\* one box of results.boxes: class id and confidence
Box(cls, conf) == [cls |-> cls, conf |-> conf]

\* the for-loop over results.boxes: the three per-frame counts
RECURSIVE HelmetFrameCounts(_)
HelmetFrameCounts(boxes) ==
    IF boxes = <<>> THEN [helmet |-> 0, no_helmet |-> 0, person |-> 0]
    ELSE LET rest == HelmetFrameCounts(Tail(boxes))
             box == Head(boxes)
         IN  IF box.conf < BOX_CONF_FILTER THEN rest
             ELSE IF box.cls \in NO_HELMET_IDS
                  THEN [rest EXCEPT !.no_helmet = @ + 1]
             ELSE IF box.cls \in HELMET_IDS
                  THEN [rest EXCEPT !.helmet = @ + 1]
             ELSE IF box.cls \in PERSON_IDS
                  THEN [rest EXCEPT !.person = @ + 1]
             ELSE rest

\* a faulty variant of the rate-limit test: open at exactly the interval
RateLimitOpenInclusive(now, last_ts, interval) == now - last_ts >= interval

\* a faulty variant of the rate-limit test: closed until a first snapshot
RateLimitClosedAtStartup(now, last_ts, interval) ==
    last_ts # 0 /\ now - last_ts > interval

\* the auto dispatcher's rate-limit test
RateLimitOpen(now, last_ts, interval) == now - last_ts > interval

\* a faulty variant of pass_fail_state: PASS overrides FAIL
PassFailStatePassWins(enabled, pass_ts, fail_ts, now) ==
    LET s1 == IF enabled /\ fail_ts # None /\ now - fail_ts <= FAIL_SEC
              THEN "fail" ELSE "none"
    IN  IF enabled /\ pass_ts # None /\ now - pass_ts <= PASS_SEC
        THEN "pass" ELSE s1

\* a faulty variant of pass_fail_state: the windows end before their last instant
PassFailStateExclusive(enabled, pass_ts, fail_ts, now) ==
    LET s1 == IF enabled /\ pass_ts # None /\ now - pass_ts < PASS_SEC
              THEN "pass" ELSE "none"
    IN  IF enabled /\ fail_ts # None /\ now - fail_ts < FAIL_SEC
        THEN "fail" ELSE s1

\* pass_fail_state of one frame
PassFailState(enabled, pass_ts, fail_ts, now) ==
    LET s1 == IF enabled /\ pass_ts # None /\ now - pass_ts <= PASS_SEC
              THEN "pass" ELSE "none"
    IN  IF enabled /\ fail_ts # None /\ now - fail_ts <= FAIL_SEC
        THEN "fail" ELSE s1

\* a faulty variant of save_snapshot: the image is sent whether written or not
SaveSnapshotSendsUnwritten(send_to_telegram, write_ok) ==
    [saved |-> write_ok, forwarded |-> send_to_telegram]

\* save_snapshot: the image is written (write_ok is cv2.imwrite's result) and,
\* only when written, sent to Telegram if asked
SaveSnapshot(send_to_telegram, write_ok) ==
    [saved |-> write_ok, forwarded |-> write_ok /\ send_to_telegram]

\* the chats send_telegram_photo sends to, in the order of the list (the two
\* chat ids of the source, by their comments)
CHAT_IDS == <<"dm", "supergroup">>

\* what requests.post does for one chat: "ok" a response with status 200,
\* "refused" a response with another status, "error" an exception (timeout,
\* connection error)
PostOutcomes == {"ok", "refused", "error"}

\* no call of send_telegram_photo, or a call that returned before its loop
NotSent == [attempted |-> <<>>, delivered |-> <<>>, raised |-> FALSE]

\* the for-loop of send_telegram_photo over chat_ids; post[c] is what
\* requests.post does for chat c; caught tells whether the body is inside
\* try / except Exception, as it is in the source
RECURSIVE SendPhotos(_, _, _)
SendPhotos(chat_ids, post, caught) ==
    IF chat_ids = <<>> THEN NotSent
    ELSE LET chat_id == Head(chat_ids) IN
         IF post[chat_id] = "error" /\ ~caught
         THEN [attempted |-> <<chat_id>>, delivered |-> <<>>, raised |-> TRUE]
         ELSE LET rest == SendPhotos(Tail(chat_ids), post, caught)
              IN  [attempted |-> <<chat_id>> \o rest.attempted,
                   delivered |-> (IF post[chat_id] = "ok" THEN <<chat_id>> ELSE <<>>)
                                 \o rest.delivered,
                   raised |-> rest.raised]

\* a faulty variant of send_telegram_photo: the request is outside any try
SendTelegramPhotoUncaught(token_set, is_file, post) ==
    IF ~token_set \/ ~is_file THEN NotSent
    ELSE SendPhotos(CHAT_IDS, post, FALSE)

\* send_telegram_photo(image_path, caption): nothing is sent without a bot token
\* or without the file; otherwise one request per chat
SendTelegramPhoto(token_set, is_file, post) ==
    IF ~token_set \/ ~is_file THEN NotSent
    ELSE SendPhotos(CHAT_IDS, post, TRUE)

\* Telegram as a call finds it: the bot token set or not, and what the request
\* for each chat does
Net(token_set, first, second) ==
    [token |-> token_set, post |-> [c \in {"dm", "supergroup"} |->
                                       IF c = "dm" THEN first ELSE second]]

\* Telegram reachable and answering 200 for both chats
NetUp == Net(TRUE, "ok", "ok")

\* what an operation did: op its name ("frame", "manual", "control"), fired an
\* auto dispatch (save_snapshot called by the frame loop), write_ok the result
\* of cv2.imwrite if it was called, saved the image written, forwarded
\* send_telegram_photo called, ok the HTTP answer's "ok"; for a frame,
\* detection_ran and cnt, the numbers of no-helmet, helmet and person boxes the
\* loop over the detector's boxes counted, net Telegram as the auto snapshot's
\* send_telegram_photo found it and tg what the call did
NoOp(name) ==
    [op |-> name, fired |-> FALSE, write_ok |-> TRUE, saved |-> FALSE,
     forwarded |-> FALSE, ok |-> TRUE, detection_ran |-> FALSE,
     cnt |-> [helmet |-> 0, no_helmet |-> 0, person |-> 0],
     net |-> NetUp, tg |-> NotSent]

\* a faulty variant of send_to_tg: the mode is ignored
SendToTgAlways(mode) == TRUE

\* send_to_tg of an auto snapshot
SendToTg(mode) == mode = "auto"

HelmetInit ==
    /\ app = "helmet"
    /\ clock = StartTime
    /\ frame_idx = 0
    /\ detect_enabled = TRUE
    /\ snapshot_interval_sec = DEFAULT_SNAPSHOT_INTERVAL
    /\ send_mode = "auto"
    /\ last_pass_ts = None
    /\ last_fail_ts = None
    /\ last_snapshot_ts = 0
    /\ last_frame_for_snapshot = NoFrame
    /\ last_helmet_count = 0
    /\ last_no_helmet_count = 0
    /\ total_helmet_count = 0
    /\ total_no_helmet_count = 0
    /\ last_status = [pass_fail |-> "none", text |-> "NO DETECTION",
                      helmet_count |-> 0, no_helmet_count |-> 0,
                      total_helmet_count |-> 0, total_no_helmet_count |-> 0]
    /\ h_op = NoOp("init")
    /\ h_fire_ts = None
    /\ h_fires = 0
    /\ h_loop = LoopAt("read", <<>>)
    /\ TruckIdle
    /\ RoiIdle
    /\ PlateIdle
    /\ fn = NoFn
    /\ handlers = NoHandlers

\* a faulty variant of the detection part: the detector is called on every
\* frame while detection is on
HelmetDetectEveryFrame(enabled, idx, boxes) ==
    LET Build(cnt) ==
            LET inferred == enabled /\ cnt.person > 0 /\ cnt.helmet = 0
                            /\ cnt.no_helmet = 0
            IN  [detection_ran |-> enabled,
                 frame_helmet_count |-> IF enabled THEN cnt.helmet ELSE 0,
                 frame_no_helmet_count |->
                     IF ~enabled THEN 0 ELSE IF inferred THEN 1 ELSE cnt.no_helmet,
                 any_no_helmet_box |-> enabled /\ cnt.no_helmet > 0,
                 any_helmet_box |-> enabled /\ cnt.helmet > 0,
                 inferred_no_helmet |-> inferred,
                 cnt |-> IF enabled THEN cnt
                         ELSE [helmet |-> 0, no_helmet |-> 0, person |-> 0]]
    IN  Build(HelmetFrameCounts(boxes))

\* a faulty variant of the detection part: the detector is called on every
\* RUN_EVERY_N-th frame whether detection is on or off
HelmetDetectIgnoresFlag(enabled, idx, boxes) ==
    LET detection_ran == idx % RUN_EVERY_N = 0
        Build(cnt) ==
            LET inferred == detection_ran /\ cnt.person > 0 /\ cnt.helmet = 0
                            /\ cnt.no_helmet = 0
            IN  [detection_ran |-> detection_ran,
                 frame_helmet_count |-> IF detection_ran THEN cnt.helmet ELSE 0,
                 frame_no_helmet_count |->
                     IF ~detection_ran THEN 0 ELSE IF inferred THEN 1 ELSE cnt.no_helmet,
                 any_no_helmet_box |-> detection_ran /\ cnt.no_helmet > 0,
                 any_helmet_box |-> detection_ran /\ cnt.helmet > 0,
                 inferred_no_helmet |-> inferred,
                 cnt |-> IF detection_ran THEN cnt
                         ELSE [helmet |-> 0, no_helmet |-> 0, person |-> 0]]
    IN  Build(HelmetFrameCounts(boxes))

\* a faulty variant of the detection part: no no-helmet is inferred from a
\* person box
HelmetDetectNoInference(enabled, idx, boxes) ==
    LET detection_ran == enabled /\ (idx % RUN_EVERY_N = 0)
        Build(cnt) ==
            [detection_ran |-> detection_ran,
             frame_helmet_count |-> IF detection_ran THEN cnt.helmet ELSE 0,
             frame_no_helmet_count |-> IF detection_ran THEN cnt.no_helmet ELSE 0,
             any_no_helmet_box |-> detection_ran /\ cnt.no_helmet > 0,
             any_helmet_box |-> detection_ran /\ cnt.helmet > 0,
             inferred_no_helmet |-> FALSE,
             cnt |-> IF detection_ran THEN cnt
                     ELSE [helmet |-> 0, no_helmet |-> 0, person |-> 0]]
    IN  Build(HelmetFrameCounts(boxes))

\* the detection part of one iteration of generate_frames (the detector call, the
\* loop over its boxes, the inferred no-helmet, the counts of the frame)
HelmetDetect(enabled, idx, boxes) ==
    LET detection_ran == enabled /\ (idx % RUN_EVERY_N = 0) IN
    IF ~detection_ran
    THEN [detection_ran |-> FALSE, frame_helmet_count |-> 0,
          frame_no_helmet_count |-> 0, any_no_helmet_box |-> FALSE,
          any_helmet_box |-> FALSE, inferred_no_helmet |-> FALSE,
          cnt |-> [helmet |-> 0, no_helmet |-> 0, person |-> 0]]
    ELSE LET Build(cnt) ==
                 LET inferred == cnt.person > 0 /\ ~(cnt.helmet > 0)
                                 /\ ~(cnt.no_helmet > 0)
                 IN  [detection_ran |-> TRUE,
                      frame_helmet_count |-> cnt.helmet,
                      frame_no_helmet_count |->
                          IF inferred /\ cnt.no_helmet = 0 THEN 1 ELSE cnt.no_helmet,
                      any_no_helmet_box |-> cnt.no_helmet > 0,
                      any_helmet_box |-> cnt.helmet > 0,
                      inferred_no_helmet |-> inferred,
                      cnt |-> cnt]
         IN  Build(HelmetFrameCounts(boxes))

\* the globals that generate_frames and toggle_detection read and write
HelmetGlobals ==
    [detect_enabled |-> detect_enabled,
     send_mode |-> send_mode,
     last_pass_ts |-> last_pass_ts,
     last_fail_ts |-> last_fail_ts,
     last_snapshot_ts |-> last_snapshot_ts,
     last_helmet_count |-> last_helmet_count,
     last_no_helmet_count |-> last_no_helmet_count,
     total_helmet_count |-> total_helmet_count,
     total_no_helmet_count |-> total_no_helmet_count,
     last_status |-> last_status]

\* a faulty variant of the dispatcher: the timer advances only when the image
\* was written
SnapshotTsAfterIfSaved(fire, write_ok, now, last_ts) ==
    IF fire /\ write_ok THEN now ELSE last_ts

\* last_snapshot_ts after the dispatcher's branch:  last_snapshot_ts = now
\* follows save_snapshot whatever cv2.imwrite returned
SnapshotTsAfter(fire, write_ok, now, last_ts) == IF fire THEN now ELSE last_ts

\* a faulty variant of the FAIL branch: a helmet box is enough
FailNowAnyHelmet(enabled, d) ==
    enabled /\ (d.any_no_helmet_box \/ d.inferred_no_helmet \/ d.any_helmet_box)

\* a faulty variant of the FAIL branch: taken whenever the detector ran and
\* found no helmet box
FailNowUnlessHelmet(enabled, d) == enabled /\ d.detection_ran /\ ~d.any_helmet_box

\* the test of the FAIL branch:  any_no_helmet_box or inferred_no_helmet
FailNow(enabled, d) == enabled /\ (d.any_no_helmet_box \/ d.inferred_no_helmet)

\* last_fail_ts / last_pass_ts after the decision: assigned now in its branch,
\* and not assigned otherwise
TimerAfter(set_now, now, ts) == IF set_now THEN now ELSE ts

\* a faulty variant of the PASS branch: an if of its own instead of an elif
PassNowAlsoOnFail(enabled, any_no_helmet, any_helmet) == enabled /\ any_helmet

\* the test of the PASS branch, the elif of the FAIL branch:  detect_enabled,
\* not any_no_helmet, and any_helmet
PassNow(enabled, any_no_helmet, any_helmet) ==
    enabled /\ ~any_no_helmet /\ any_helmet

\* a faulty variant of the session counter: the frame's count replaces it
TotalReplaced(ran, total, count) == IF ran THEN count ELSE total

\* a session counter after one frame adding count to it, if the detector ran
TotalAfter(ran, total, count) == IF ran THEN total + count ELSE total

\* the rest of the iteration as a function of the globals g it finds: counters,
\* PASS / FAIL decision, auto snapshot, published status; enabled and interval
\* are the iteration's readings of state[...]
HelmetFrame(g, enabled, interval, now, d, write_ok) ==
    LET fail_now == FailNow(enabled, d)
        pass_now == PassNow(enabled, d.any_no_helmet_box \/ d.inferred_no_helmet,
                            d.any_helmet_box)
        helmet_count ==
            IF d.detection_ran THEN d.frame_helmet_count ELSE g.last_helmet_count
        no_helmet_count ==
            IF d.detection_ran THEN d.frame_no_helmet_count ELSE g.last_no_helmet_count
        new_total_h == TotalAfter(d.detection_ran, g.total_helmet_count,
                                  d.frame_helmet_count)
        new_total_n == TotalAfter(d.detection_ran, g.total_no_helmet_count,
                                  d.frame_no_helmet_count)
        new_fail == TimerAfter(fail_now, now, g.last_fail_ts)
        new_pass == TimerAfter(pass_now, now, g.last_pass_ts)
        fire == fail_now /\ RateLimitOpen(now, g.last_snapshot_ts, interval)
        snap == SaveSnapshot(SendToTg(g.send_mode), write_ok)
        status_text ==
            IF ~enabled THEN "DETECTION OFF"
            ELSE IF fail_now THEN "NO HELMET (ALERT)"
            ELSE IF pass_now THEN "HELMET DETECTED"
            ELSE "NO DETECTION"
    IN  [g |-> [g EXCEPT
                  !.last_helmet_count = helmet_count,
                  !.last_no_helmet_count = no_helmet_count,
                  !.total_helmet_count = new_total_h,
                  !.total_no_helmet_count = new_total_n,
                  !.last_fail_ts = new_fail,
                  !.last_pass_ts = new_pass,
                  !.last_snapshot_ts =
                      SnapshotTsAfter(fire, write_ok, now, g.last_snapshot_ts),
                  !.last_status =
                      [pass_fail |-> PassFailState(enabled, new_pass, new_fail, now),
                       text |-> status_text,
                       helmet_count |-> helmet_count,
                       no_helmet_count |-> no_helmet_count,
                       total_helmet_count |-> new_total_h,
                       total_no_helmet_count |-> new_total_n]],
         fired |-> fire,
         saved |-> fire /\ snap.saved,
         forwarded |-> fire /\ snap.forwarded]

\* the rest of the iteration on the globals as they are, with the frame buffer;
\* net is Telegram as the auto snapshot finds it and loop the generator after
\* the iteration. An exception leaving send_telegram_photo would leave
\* save_snapshot and the while-loop: the generator ends, with the counters and
\* last_fail_ts assigned and last_snapshot_ts, last_status and the frame buffer
\* not yet
HelmetApply(enabled, interval, idx, now, d, write_ok, net, loop) ==
    LET Commit(r, tg) ==
    \* save_snapshot writes only when the dispatcher fires
    /\ r.fired \/ write_ok
    /\ clock' = now
    /\ frame_idx' = idx
    /\ last_helmet_count' = r.g.last_helmet_count
    /\ last_no_helmet_count' = r.g.last_no_helmet_count
    /\ total_helmet_count' = r.g.total_helmet_count
    /\ total_no_helmet_count' = r.g.total_no_helmet_count
    /\ last_fail_ts' = r.g.last_fail_ts
    /\ last_pass_ts' = r.g.last_pass_ts
    /\ last_snapshot_ts' = IF tg.raised THEN last_snapshot_ts ELSE r.g.last_snapshot_ts
    /\ last_status' = IF tg.raised THEN last_status ELSE r.g.last_status
    /\ last_frame_for_snapshot' = IF tg.raised THEN last_frame_for_snapshot ELSE idx
    /\ h_loop' = IF tg.raised THEN LoopAt("done", <<>>) ELSE loop
    /\ h_op' = [op |-> IF tg.raised THEN "raise" ELSE "frame",
                fired |-> r.fired, write_ok |-> write_ok,
                saved |-> r.saved, forwarded |-> r.forwarded, ok |-> TRUE,
                detection_ran |-> d.detection_ran, cnt |-> d.cnt,
                net |-> IF r.forwarded THEN net ELSE NetUp, tg |-> tg]
    /\ h_fire_ts' = IF r.fired THEN now ELSE h_fire_ts
    /\ h_fires' = IF r.fired THEN h_fires + 1 ELSE h_fires
    /\ UNCHANGED <<app, detect_enabled, snapshot_interval_sec, send_mode, notHelmet>>
        Send(r) ==
            Commit(r, IF r.forwarded THEN SendTelegramPhoto(net.token, TRUE, net.post)
                      ELSE NotSent)
    IN  Send(HelmetFrame(HelmetGlobals, enabled, interval, now, d, write_ok))

\* the detector's answers for one frame that the model explores: nothing, one
\* box of each class, a box under the confidence filter, and pairs
HelmetBatches ==
    {<<>>,
     <<Box(1, 70)>>, <<Box(3, 70)>>, <<Box(6, 70)>>, <<Box(0, 70)>>,
     <<Box(1, 60)>>, <<Box(3, 60), Box(6, 60)>>,
     <<Box(1, 70), Box(3, 70)>>, <<Box(3, 70), Box(1, 70)>>,
     <<Box(6, 70), Box(1, 70)>>, <<Box(6, 70), Box(3, 70)>>,
     <<Box(3, 70), Box(3, 70)>>, <<Box(1, 70), Box(1, 60)>>}

\* one iteration of the while-loop of generate_frames, on a frame read gap
\* seconds after the previous one; the detector is called only if detection is
\* on and the frame index is a multiple of RUN_EVERY_N
GenerateFramesAt(gaps, nets) ==
    /\ app = "helmet"
    /\ h_loop.pc = "read"
    /\ frame_idx < MaxFrames
    /\ \E gap \in gaps, write_ok \in BOOLEAN, net \in nets :
         \E boxes \in IF detect_enabled /\ ((frame_idx + 1) % RUN_EVERY_N = 0)
                      THEN HelmetBatches ELSE {<<>>} :
            HelmetApply(detect_enabled, snapshot_interval_sec, frame_idx + 1,
                        clock + gap,
                        HelmetDetect(detect_enabled, frame_idx + 1, boxes), write_ok,
                        net, h_loop)

GenerateFrames == GenerateFramesAt(FrameGaps, {NetUp})

\* a faulty variant of toggle_detection: turning OFF also clears the totals
ToggleDetectionClearsTotals ==
    LET new_state == ~detect_enabled IN
    /\ app = "helmet"
    /\ detect_enabled' = new_state
    /\ total_helmet_count' = IF new_state THEN total_helmet_count ELSE 0
    /\ total_no_helmet_count' = IF new_state THEN total_no_helmet_count ELSE 0
    /\ h_op' = NoOp("control")
    /\ UNCHANGED <<app, clock, frame_idx, snapshot_interval_sec, send_mode,
                   last_pass_ts, last_fail_ts, last_status,
                   last_snapshot_ts, last_frame_for_snapshot, last_helmet_count,
                   last_no_helmet_count, h_fire_ts, h_fires, h_loop, notHelmet>>

\* toggle_detection as a function of the globals g it finds
ToggleOutcome(g) ==
    LET new_state == ~g.detect_enabled IN
    IF ~new_state
    THEN [g EXCEPT !.detect_enabled = new_state,
                   !.last_pass_ts = None,
                   !.last_fail_ts = None,
                   !.last_status = [g.last_status EXCEPT !.pass_fail = "none",
                                                         !.text = "DETECTION OFF",
                                                         !.helmet_count = 0,
                                                         !.no_helmet_count = 0]]
    ELSE [g EXCEPT !.detect_enabled = new_state]

\* POST /toggle_detection
ToggleDetection ==
    LET Commit(r) ==
    /\ app = "helmet"
    /\ detect_enabled' = r.detect_enabled
    /\ last_pass_ts' = r.last_pass_ts
    /\ last_fail_ts' = r.last_fail_ts
    /\ last_status' = r.last_status
    /\ h_op' = NoOp("control")
    /\ UNCHANGED <<app, clock, frame_idx, snapshot_interval_sec, send_mode,
                   last_snapshot_ts, last_frame_for_snapshot, last_helmet_count,
                   last_no_helmet_count, total_helmet_count, total_no_helmet_count,
                   h_fire_ts, h_fires, h_loop, notHelmet>>
    IN  Commit(ToggleOutcome(HelmetGlobals))

\* a JSON value of a request body's key as json.loads gives it: the key missing,
\* null, true or false (num 1 or 0), an integer, a number with a fraction (num
\* in tenths), a number beyond the range of a float such as 1e999 (inf), a
\* string
Json(kind, num, text) == [kind |-> kind, num |-> num, text |-> text]

\* values of snapshot_interval_sec: none, null, true, 7, 10, 30, 60, 30.7, 10.5,
\* 7.5, -10.5, 1e999, "30", "abc", "30.5", ""
IntervalValues ==
    {Json("missing", 0, <<>>), Json("null", 0, <<>>), Json("bool", 1, <<>>),
     Json("int", 7, <<>>), Json("int", 10, <<>>), Json("int", 30, <<>>),
     Json("int", 60, <<>>),
     Json("float", 307, <<>>), Json("float", 105, <<>>), Json("float", 75, <<>>),
     Json("float", -105, <<>>), Json("inf", 0, <<>>),
     Json("str", 0, <<"3", "0">>), Json("str", 0, <<"a", "b", "c">>),
     Json("str", 0, <<"3", "0", ".", "5">>), Json("str", 0, <<>>)}

\* the values of snapshot_interval_sec the clients of a run post: none, 7, 10,
\* 30.7, "abc"
IntervalRequests ==
    {Json("missing", 0, <<>>), Json("int", 7, <<>>), Json("int", 10, <<>>),
     Json("float", 307, <<>>), Json("str", 0, <<"a", "b", "c">>)}

\* the number a string of decimal digits denotes
RECURSIVE DigitsValue(_)
DigitsValue(t) ==
    IF t = <<>> THEN 0
    ELSE 10 * DigitsValue(SubSeq(t, 1, Len(t) - 1))
         + (CHOOSE d \in 0..9 : DigitChars[d + 1] = t[Len(t)])

\* int(x) of Python, with the exception it raises ("" when none): an integer is
\* itself, true is 1, a number with a fraction is truncated toward zero, an
\* infinite float raises OverflowError, null raises TypeError; a string of
\* digits is parsed and a string that is no integer literal raises ValueError
\* (the strings posted are of these two kinds)
PyInt(x) ==
    CASE x.kind \in {"int", "bool"} -> [raises |-> "", value |-> x.num]
      [] x.kind = "float" ->
            [raises |-> "",
             value |-> IF x.num >= 0 THEN x.num \div 10 ELSE -((-x.num) \div 10)]
      [] x.kind = "inf" -> [raises |-> "OverflowError", value |-> 0]
      [] x.kind = "str" ->
            IF x.text # <<>>
               /\ \A i \in 1..Len(x.text) : \E d \in 1..10 : DigitChars[d] = x.text[i]
            THEN [raises |-> "", value |-> DigitsValue(x.text)]
            ELSE [raises |-> "ValueError", value |-> 0]
      [] OTHER -> [raises |-> "TypeError", value |-> 0]

\* the exceptions that set_snapshot_interval catches around int(...)
IntervalCaught == {"TypeError", "ValueError"}

\* a faulty variant of the normalisation: the converted value is stored as it is
NormalizeIntervalUnchecked(req, options, default) ==
    IF req.kind = "missing" \/ PyInt(req).raises \in IntervalCaught
    THEN default ELSE PyInt(req).value

\* sec of set_snapshot_interval:  int(data.get(key, default)), the default when
\* int raises TypeError or ValueError, and the default when the result is not
\* one of the options
NormalizeInterval(req, options, default) ==
    LET sec == IF req.kind = "missing" \/ PyInt(req).raises \in IntervalCaught
               THEN default ELSE PyInt(req).value
    IN  IF sec \in options THEN sec ELSE default

\* the answer of set_snapshot_interval: an exception of int(...) that is not
\* caught leaves the handler (HTTP 500) before anything is stored; otherwise
\* sec is stored and returned
IntervalOutcome(req, options, default) ==
    IF req.kind # "missing" /\ PyInt(req).raises \notin IntervalCaught \cup {""}
    THEN [status |-> 500, stored |-> FALSE, sec |-> 0]
    ELSE [status |-> 200, stored |-> TRUE, sec |-> NormalizeInterval(req, options, default)]

\* POST /set_snapshot_interval
SetSnapshotInterval ==
    \E req \in IntervalRequests :
        /\ app = "helmet"
        /\ snapshot_interval_sec' = NormalizeInterval(req, SNAPSHOT_INTERVAL_OPTIONS,
                                                      DEFAULT_SNAPSHOT_INTERVAL)
        /\ h_op' = NoOp("control")
        /\ UNCHANGED <<app, clock, frame_idx, detect_enabled, send_mode, last_pass_ts,
                       last_fail_ts, last_snapshot_ts, last_frame_for_snapshot,
                       last_helmet_count, last_no_helmet_count, total_helmet_count,
                       total_no_helmet_count, last_status, h_fire_ts, h_fires, h_loop,
                       notHelmet>>

\* the values of mode a client posts (a missing key reads as "auto")
ModeRequests == {"auto", "manual", "MANUAL"}

NormalizeMode(mode) == IF mode \in {"auto", "manual"} THEN mode ELSE "auto"

\* POST /set_send_mode
SetSendMode ==
    \E req \in ModeRequests :
        /\ app = "helmet"
        /\ send_mode' = NormalizeMode(req)
        /\ h_op' = NoOp("control")
        /\ UNCHANGED <<app, clock, frame_idx, detect_enabled, snapshot_interval_sec,
                       last_pass_ts, last_fail_ts, last_snapshot_ts,
                       last_frame_for_snapshot, last_helmet_count, last_no_helmet_count,
                       total_helmet_count, total_no_helmet_count, last_status,
                       h_fire_ts, h_fires, h_loop, notHelmet>>

\* a faulty variant of manual_snapshot: refused while the rate limiter is closed
ManualOutcomeRateLimited(frame, write_ok) ==
    IF frame = NoFrame \/ ~RateLimitOpen(clock, last_snapshot_ts, snapshot_interval_sec)
    THEN [NoOp("manual") EXCEPT !.ok = FALSE]
    ELSE LET snap == SaveSnapshot(TRUE, write_ok)
         IN  [NoOp("manual") EXCEPT !.write_ok = write_ok, !.saved = snap.saved,
                                    !.forwarded = snap.forwarded]

\* a faulty variant of manual_snapshot: the test for a buffered frame is missing
ManualOutcomeUnchecked(frame, write_ok) ==
    LET snap == SaveSnapshot(TRUE, write_ok)
    IN  [NoOp("manual") EXCEPT !.write_ok = write_ok, !.saved = snap.saved,
                               !.forwarded = snap.forwarded]

\* the outcome of POST /manual_snapshot on the buffered frame
ManualOutcome(frame, write_ok) ==
    IF frame = NoFrame
    THEN [NoOp("manual") EXCEPT !.ok = FALSE]
    ELSE LET snap == SaveSnapshot(TRUE, write_ok)
         IN  [NoOp("manual") EXCEPT !.write_ok = write_ok, !.saved = snap.saved,
                                    !.forwarded = snap.forwarded]

\* a faulty variant of manual_snapshot: a saved manual snapshot restarts the
\* auto snapshot's interval
ManualSnapshotStamps ==
    \E write_ok \in BOOLEAN :
        /\ app = "helmet"
        /\ last_frame_for_snapshot # NoFrame \/ write_ok
        /\ h_op' = ManualOutcome(last_frame_for_snapshot, write_ok)
        /\ last_snapshot_ts' = IF h_op'.saved THEN clock ELSE last_snapshot_ts
        /\ UNCHANGED <<app, clock, frame_idx, detect_enabled, snapshot_interval_sec,
                       send_mode, last_pass_ts, last_fail_ts,
                       last_frame_for_snapshot, last_helmet_count, last_no_helmet_count,
                       total_helmet_count, total_no_helmet_count, last_status,
                       h_fire_ts, h_fires, h_loop, notHelmet>>

\* POST /manual_snapshot
ManualSnapshot ==
    \E write_ok \in BOOLEAN :
        /\ app = "helmet"
        /\ last_frame_for_snapshot # NoFrame \/ write_ok
        /\ h_op' = ManualOutcome(last_frame_for_snapshot, write_ok)
        /\ UNCHANGED <<app, clock, frame_idx, detect_enabled, snapshot_interval_sec,
                       send_mode, last_pass_ts, last_fail_ts, last_snapshot_ts,
                       last_frame_for_snapshot, last_helmet_count, last_no_helmet_count,
                       total_helmet_count, total_no_helmet_count, last_status,
                       h_fire_ts, h_fires, h_loop, notHelmet>>

HelmetNext ==
    \/ GenerateFrames
    \/ ToggleDetection
    \/ SetSnapshotInterval
    \/ SetSendMode
    \/ ManualSnapshot

SpecHelmet == HelmetInit /\ [][HelmetNext]_vars

\* web_helmet_app.py with frames 0, 3 or 11 seconds apart, for the auto
\* snapshots of no-helmet frames a few seconds apart under each interval
AlertGaps == {0, 3, 11}

GenerateFramesSpaced == GenerateFramesAt(AlertGaps, {NetUp})

AlertsNext ==
    \/ GenerateFramesSpaced
    \/ SetSnapshotInterval

SpecAlerts == HelmetInit /\ [][AlertsNext]_vars

\* web_helmet_app.py with Telegram failing: no bot token, or per chat a
\* response other than 200 or an exception of the request
Nets ==
    {Net(FALSE, "ok", "ok")}
        \cup {Net(TRUE, first, second) : first \in PostOutcomes, second \in PostOutcomes}

GenerateFramesSending == GenerateFramesAt(FrameGaps, Nets)

ForwardNext ==
    \/ GenerateFramesSending
    \/ SetSnapshotInterval
    \/ SetSendMode

SpecForward == HelmetInit /\ [][ForwardNext]_vars

-----------------------------------------------------------------------------
(* web_helmet_app.py with the iteration of generate_frames in two steps: the
   server is threaded and no lock guards the globals, so a request handler runs
   while the loop's thread is inside the detector call *)

\* the first part of an iteration: the frame is read, frame_idx advanced,
\* state["detect_enabled"] and state["snapshot_interval_sec"] are read into
\* locals, and the detector is called on the frame (boxes is its answer);
\* g0 keeps the globals as they were then, and after_toggle tells whether a
\* request was handled just before the iteration began
FrameBegin ==
    /\ app = "helmet"
    /\ h_loop.pc = "read"
    /\ frame_idx < MaxFrames
    /\ \E boxes \in IF detect_enabled /\ ((frame_idx + 1) % RUN_EVERY_N = 0)
                     THEN HelmetBatches ELSE {<<>>} :
          h_loop' = LoopAt("detect",
                           [detect_enabled |-> detect_enabled,
                            snapshot_interval_sec |-> snapshot_interval_sec,
                            frame_idx |-> frame_idx + 1,
                            boxes |-> boxes,
                            g0 |-> HelmetGlobals,
                            after_toggle |-> (h_op.op = "control"),
                            toggled |-> FALSE])
    /\ h_op' = NoOp("begin")
    /\ UNCHANGED <<app, clock, frame_idx, detect_enabled, snapshot_interval_sec,
                   send_mode, last_pass_ts, last_fail_ts, last_snapshot_ts,
                   last_frame_for_snapshot, last_helmet_count, last_no_helmet_count,
                   total_helmet_count, total_no_helmet_count, last_status,
                   h_fire_ts, h_fires, notHelmet>>

\* the rest of the iteration, with the locals read at its beginning and the
\* globals as they are now; toggled tells whether a request was handled
\* in between
FrameEnd ==
    /\ app = "helmet"
    /\ h_loop.pc = "detect"
    /\ \E gap \in FrameGaps, write_ok \in BOOLEAN :
          HelmetApply(h_loop.local.detect_enabled, h_loop.local.snapshot_interval_sec,
                      h_loop.local.frame_idx, clock + gap,
                      HelmetDetect(h_loop.local.detect_enabled, h_loop.local.frame_idx,
                                   h_loop.local.boxes),
                      write_ok, NetUp,
                      LoopAt("read", [h_loop.local EXCEPT
                                        !.toggled = (h_op.op = "control")]))

\* POST /toggle_detection handled by another thread: between two iterations, or
\* once while the loop is inside the detector call
ToggleDuringFrame ==
    /\ h_loop.pc = "detect" => h_op.op = "begin"
    /\ ToggleDetection

\* POST /toggle_detection in thread i, first statement: the flag is read and
\* negated into the local new_state
ToggleRead(i) ==
    /\ app = "helmet"
    /\ handlers[i].pc = "idle"
    /\ handlers' = [handlers EXCEPT
                      ![i] = LoopAt("write", [new_state |-> ~detect_enabled])]
    /\ h_op' = NoOp("control")
    /\ UNCHANGED <<app, clock, frame_idx, detect_enabled, snapshot_interval_sec,
                   send_mode, last_pass_ts, last_fail_ts, last_snapshot_ts,
                   last_frame_for_snapshot, last_helmet_count, last_no_helmet_count,
                   total_helmet_count, total_no_helmet_count, last_status,
                   h_fire_ts, h_fires, h_loop, tvars, rvars, pvars, fn>>

\* the rest of toggle_detection in thread i: the local is stored into the flag
\* and, when it is False, the per-frame status is cleared; the request is done
ToggleWrite(i) ==
    LET new_state == handlers[i].local.new_state
        g == ToggleOutcome([HelmetGlobals EXCEPT !.detect_enabled = ~new_state])
    IN
    /\ app = "helmet"
    /\ handlers[i].pc = "write"
    /\ handlers' = [handlers EXCEPT ![i].pc = "done"]
    /\ detect_enabled' = g.detect_enabled
    /\ last_pass_ts' = g.last_pass_ts
    /\ last_fail_ts' = g.last_fail_ts
    /\ last_status' = g.last_status
    /\ h_op' = NoOp("control")
    /\ UNCHANGED <<app, clock, frame_idx, snapshot_interval_sec, send_mode,
                   last_snapshot_ts, last_frame_for_snapshot, last_helmet_count,
                   last_no_helmet_count, total_helmet_count, total_no_helmet_count,
                   h_fire_ts, h_fires, h_loop, tvars, rvars, pvars, fn>>

\* the requests of several clients, each in a thread of its own
ToggleThreads == \E i \in 1..MaxHandlers : ToggleRead(i) \/ ToggleWrite(i)

TogglesNext ==
    \/ GenerateFrames
    \/ ToggleThreads

SpecToggles == HelmetInit /\ [][TogglesNext]_vars

\* seconds between a frame of the second client's loop and the frame that
\* either loop read before it
ClientGaps == {0}

\* frame_idx of the generate_frames loop that video_feed started for client i
ClientFrameIdx(i) ==
    IF handlers[i].local = <<>> THEN 0 ELSE handlers[i].local.frame_idx

\* an iteration of the generate_frames loop of client i, a thread of its own,
\* up to the test  now - last_snapshot_ts > snapshot_interval_sec:  the counters
\* and last_fail_ts / last_pass_ts are assigned; when the test fails the
\* iteration goes on to its end, and when it holds the thread stands before
\* save_snapshot with its locals
ClientCheck(i) ==
    /\ app = "helmet"
    /\ handlers[i].pc = "idle"
    /\ ClientFrameIdx(i) < MaxClientFrames
    /\ \E gap \in ClientGaps :
         \E boxes \in IF detect_enabled /\ ((ClientFrameIdx(i) + 1) % RUN_EVERY_N = 0)
                      THEN HelmetBatches ELSE {<<>>} :
            LET idx == ClientFrameIdx(i) + 1
                now == clock + gap
                d == HelmetDetect(detect_enabled, idx, boxes)
                r == HelmetFrame(HelmetGlobals, detect_enabled,
                                 snapshot_interval_sec, now, d, TRUE)
            IN  /\ clock' = now
                /\ last_helmet_count' = r.g.last_helmet_count
                /\ last_no_helmet_count' = r.g.last_no_helmet_count
                /\ total_helmet_count' = r.g.total_helmet_count
                /\ total_no_helmet_count' = r.g.total_no_helmet_count
                /\ last_fail_ts' = r.g.last_fail_ts
                /\ last_pass_ts' = r.g.last_pass_ts
                /\ last_status' = IF r.fired THEN last_status ELSE r.g.last_status
                /\ last_frame_for_snapshot' =
                       IF r.fired THEN last_frame_for_snapshot ELSE idx
                /\ handlers' = [handlers EXCEPT ![i] =
                       LoopAt(IF r.fired THEN "save" ELSE "idle",
                              [frame_idx |-> idx, now |-> now,
                               enabled |-> detect_enabled,
                               helmet_count |-> r.g.last_status.helmet_count,
                               no_helmet_count |-> r.g.last_status.no_helmet_count])]
                /\ h_op' = [NoOp(IF r.fired THEN "begin" ELSE "frame") EXCEPT
                              !.detection_ran = d.detection_ran, !.cnt = d.cnt]
    /\ UNCHANGED <<app, frame_idx, detect_enabled, snapshot_interval_sec, send_mode,
                   last_snapshot_ts, h_fire_ts, h_fires, h_loop,
                   tvars, rvars, pvars, fn>>

\* the rest of that iteration: save_snapshot, last_snapshot_ts = now with the
\* now of the test, and the status published from the locals and the globals
\* as they are by then
ClientSave(i) ==
    /\ app = "helmet"
    /\ handlers[i].pc = "save"
    /\ \E write_ok \in BOOLEAN :
         LET l == handlers[i].local
             snap == SaveSnapshot(SendToTg(send_mode), write_ok)
         IN  /\ last_snapshot_ts' = SnapshotTsAfter(TRUE, write_ok, l.now,
                                                     last_snapshot_ts)
             /\ last_status' =
                    [pass_fail |-> PassFailState(l.enabled, last_pass_ts,
                                                 last_fail_ts, l.now),
                     text |-> "NO HELMET (ALERT)",
                     helmet_count |-> l.helmet_count,
                     no_helmet_count |-> l.no_helmet_count,
                     total_helmet_count |-> total_helmet_count,
                     total_no_helmet_count |-> total_no_helmet_count]
             /\ last_frame_for_snapshot' = l.frame_idx
             /\ handlers' = [handlers EXCEPT ![i].pc = "idle"]
             /\ h_fire_ts' = l.now
             /\ h_fires' = h_fires + 1
             /\ h_op' = [NoOp("frame") EXCEPT
                           !.fired = TRUE, !.write_ok = write_ok,
                           !.saved = snap.saved, !.forwarded = snap.forwarded]
    /\ UNCHANGED <<app, clock, frame_idx, detect_enabled, snapshot_interval_sec,
                   send_mode, last_pass_ts, last_fail_ts, last_helmet_count,
                   last_no_helmet_count, total_helmet_count, total_no_helmet_count,
                   h_loop, tvars, rvars, pvars, fn>>

\* GET /video_feed of a second client while the first client's loop runs: the
\* server starts another generate_frames loop on the same globals
SecondClient == ClientCheck(1) \/ ClientSave(1)

ClientsNext ==
    \/ GenerateFrames
    \/ SecondClient

SpecClients == HelmetInit /\ [][ClientsNext]_vars

RaceNext ==
    \/ FrameBegin
    \/ FrameEnd
    \/ ToggleDuringFrame

SpecRace == HelmetInit /\ [][RaceNext]_vars

-----------------------------------------------------------------------------
(* web_truck_plat_ocr_app.py *)

CAMERA_IDS == {"cam1", "cam2", "cam3"}
TRUCK_SNAPSHOT_INTERVAL_OPTIONS == {3, 5, 10, 15, 30, 60}
TRUCK_DEFAULT_SNAPSHOT_INTERVAL == 10

s_truck == <<"t","r","u","c","k">>
s_car == <<"c","a","r">>
s_license_plate == <<"l","i","c","e","n","s","e","_","p","l","a","t","e">>
s_unknown == <<"u","n","k","n","o","w","n">>

\* truck_model.names (COCO: 2 car, 7 truck) and plate_model.names
TRUCK_CLASS_NAMES == (2 :> s_car) @@ (7 :> s_truck)
PLATE_CLASS_NAMES == (0 :> s_license_plate)
PLATE_KEYWORDS == {s_license_plate}

\* str(cls_id) of a one-digit class id
Str(n) == <<DigitChars[n + 1]>>

\* names.get(cls_id, str(cls_id))
ClassLabel(names, cls_id) ==
    IF cls_id \in DOMAIN names THEN names[cls_id] ELSE Str(cls_id)

is_truck_label(label) == Contains(s_truck, Lower(label))

is_plate_label(label) == \E k \in PLATE_KEYWORDS : Contains(k, Lower(label))

\* the frame's shape in pixels
FrameW == 8
FrameH == 8

\* ROI_RECT: the shipped rectangle is the whole frame, to be narrowed per
\* camera once the resolution is known; cam1 is narrowed to a rectangle inside
\* the model's frame, the other cameras are as shipped
RoiWholeFrame == [x1 |-> 0, y1 |-> 0, x2 |-> 9999, y2 |-> 9999]
RoiNarrow == [x1 |-> 2, y1 |-> 2, x2 |-> 5, y2 |-> 5]
ROI_RECT == [c \in CAMERA_IDS |-> IF c = "cam1" THEN RoiNarrow ELSE RoiWholeFrame]

\* a faulty variant of point_in_roi: the far edges x2 and y2 are outside
point_in_roi_half_open(rects, cam_id, x, y) ==
    IF cam_id \notin DOMAIN rects THEN TRUE
    ELSE LET cfg == rects[cam_id]
         IN  cfg.x1 <= x /\ x < cfg.x2 /\ cfg.y1 <= y /\ y < cfg.y2

\* point_in_roi(cam_id, x, y) with ROI_RECT = rects; a camera without an entry
\* has no region
point_in_roi(rects, cam_id, x, y) ==
    IF cam_id \notin DOMAIN rects THEN TRUE
    ELSE LET cfg == rects[cam_id]
         IN  cfg.x1 <= x /\ x <= cfg.x2 /\ cfg.y1 <= y /\ y <= cfg.y2

\* one box of a detector's results: class id and xyxy corners
RawBox(cls, x1, y1, x2, y2) == [cls |-> cls, x1 |-> x1, y1 |-> y1, x2 |-> x2, y2 |-> y2]

\* the clamping of a box to the frame and its center
ClampBox(b, rects, cam_id) ==
    LET x1 == Max(0, Min(b.x1, FrameW - 1))
        y1 == Max(0, Min(b.y1, FrameH - 1))
        x2 == Max(0, Min(b.x2, FrameW))
        y2 == Max(0, Min(b.y2, FrameH))
        cx == (x1 + x2) \div 2
        cy == (y1 + y2) \div 2
    IN  [x1 |-> x1, y1 |-> y1, x2 |-> x2, y2 |-> y2, cx |-> cx, cy |-> cy,
         in_roi |-> point_in_roi(rects, cam_id, cx, cy)]

\* the loop over t_results.boxes: the list trucks
RECURSIVE TruckDetections(_, _, _)
TruckDetections(boxes, rects, cam_id) ==
    IF boxes = <<>> THEN <<>>
    ELSE LET rest == TruckDetections(Tail(boxes), rects, cam_id)
             label == ClassLabel(TRUCK_CLASS_NAMES, Head(boxes).cls)
         IN  IF is_truck_label(label)
             THEN <<ClampBox(Head(boxes), rects, cam_id)>> \o rest
             ELSE rest

\* the loop over p_results.boxes: the list plates
RECURSIVE PlateDetections(_, _, _)
PlateDetections(boxes, rects, cam_id) ==
    IF boxes = <<>> THEN <<>>
    ELSE LET rest == PlateDetections(Tail(boxes), rects, cam_id)
             label == ClassLabel(PLATE_CLASS_NAMES, Head(boxes).cls)
         IN  IF is_plate_label(label)
             THEN <<ClampBox(Head(boxes), rects, cam_id)>> \o rest
             ELSE rest

\* frame_truck_count: the trucks whose center is in the ROI
RECURSIVE CountInRoi(_)
CountInRoi(dets) ==
    IF dets = <<>> THEN 0
    ELSE (IF Head(dets).in_roi THEN 1 ELSE 0) + CountInRoi(Tail(dets))

-----------------------------------------------------------------------------
(* OCR of the truck app *)

IsSpace(c) == c \in {" ", "\n"}

RECURSIVE LStrip(_)
LStrip(s) == IF s # <<>> /\ IsSpace(Head(s)) THEN LStrip(Tail(s)) ELSE s

RECURSIVE RStrip(_)
RStrip(s) ==
    IF s # <<>> /\ IsSpace(s[Len(s)]) THEN RStrip(SubSeq(s, 1, Len(s) - 1)) ELSE s

\* str.strip()
Strip(s) == RStrip(LStrip(s))

IsNotBlank(c) == c # " "

\* the members of the regular expression's class (ASCII digits and letters,
\* Thai consonants, Thai digits) among the characters the recognizer answers
\* of the model are written with; a Thai character is written by its name
PlateCharAllowed(c) ==
    c \in {"0","1","2","3","4","5","6","7","8","9",
           "A","B","C","a","b","c",
           "ko_kai","kho_khai","thai_1"}

sanitize_plate_text(text) ==
    LET t == SelectSeq(Strip(text), IsNotBlank)
    IN  IF t = <<>> THEN <<>> ELSE SelectSeq(t, PlateCharAllowed)

\* "".join(results)
RECURSIVE Join(_)
Join(results) == IF results = <<>> THEN <<>> ELSE Head(results) \o Join(Tail(results))

\* an answer of ocr_reader.readtext: it raises, or returns a list of fragments
OcrAnswer(raises, results) == [raises |-> raises, results |-> results]

\* ocr_plate_image on the crop of a plate box
ocr_plate_image(crop_empty, answer) ==
    IF crop_empty THEN <<>>
    ELSE IF answer.raises THEN <<>>
    ELSE IF answer.results = <<>> THEN <<>>
    ELSE sanitize_plate_text(Join(answer.results))

\* recognizer answers the model explores
OcrRaises == OcrAnswer(TRUE, <<>>)
OcrNothing == OcrAnswer(FALSE, <<>>)
OcrAB == OcrAnswer(FALSE, << <<"A">>, <<"B">> >>)
OcrAB123 == OcrAnswer(FALSE, << <<"A", "B">>, <<"1", "2", "3">> >>)
OcrDirty == OcrAnswer(FALSE, << <<" ", "A", "-", "B", " ">>, <<"1", ".", "2", "3", "\n">> >>)
OcrSymbols == OcrAnswer(FALSE, << <<"-">>, <<" ">> >>)
OcrThai == OcrAnswer(FALSE, << <<"ko_kai", "kho_khai">>, <<"thai_1", "2">> >>)

\* text or "unknown"
OrUnknown(text) == IF text = <<>> THEN s_unknown ELSE text

\* frame[y1p:y2p, x1p:x2p] has no pixel
CropEmpty(p) == p.y2 <= p.y1 \/ p.x2 <= p.x1

-----------------------------------------------------------------------------
(* the truck pipeline: state, frame loop, control endpoints *)

\* the per-camera dictionaries at import
TruckCamInit ==
    [detect_enabled |-> TRUE,
     snapshot_interval_sec |-> TRUCK_DEFAULT_SNAPSHOT_INTERVAL,
     mode |-> "auto",
     last_snapshot_ts |-> 0,
     last_frame_for_snapshot |-> NoFrame,
     last_truck_count |-> 0,
     total_truck_events |-> 0,
     prev_any_truck |-> FALSE,
     last_plate_text |-> <<>>,
     last_status |-> [text |-> "NO DETECTION", truck_count |-> 0,
                      total_truck_events |-> 0, last_plate_text |-> <<>>]]

\* what an operation of the truck app did; trucks, plates and assoc describe the
\* association loop of a frame (assoc[i] is what happened to plates[i])
TruckNoOp(name, cam_id) ==
    [op |-> name, cam |-> cam_id, fired |-> FALSE, write_ok |-> TRUE,
     saved |-> FALSE, forwarded |-> FALSE, ok |-> TRUE,
     trucks |-> <<>>, plates |-> <<>>, assoc |-> <<>>]

\* per camera: time and number of the auto snapshots, and the presence of an
\* in-ROI truck at the last frame the detector ran on with the number of
\* absent-to-present transitions between such frames
TruckObsInit ==
    [fire_ts |-> None, fires |-> 0, seen |-> FALSE, edges |-> 0, held |-> None]

\* the cameras whose /video_feed a client is streaming from the start
TruckFeeds == {"cam1"}

\* tk_frame_idx[c] holds the frame_idx of each generate_frames(c) generator
\* that is running, one generator per /video_feed request
TruckInit ==
    /\ app = "truck"
    /\ clock = StartTime
    /\ truck = [c \in CAMERA_IDS |-> TruckCamInit]
    /\ tk_frame_idx = [c \in CAMERA_IDS |-> IF c \in TruckFeeds THEN <<0>> ELSE <<>>]
    /\ tk_op = TruckNoOp("init", "cam1")
    /\ tk_obs = [c \in CAMERA_IDS |-> TruckObsInit]
    /\ HelmetIdle
    /\ RoiIdle
    /\ PlateIdle
    /\ fn = NoFn
    /\ handlers = NoHandlers

\* for t in trucks: the first truck whose box contains the plate's center, by
\* index from j on; 0 when the loop ends without a break
RECURSIVE FirstContaining(_, _, _)
FirstContaining(p, trucks, j) ==
    IF j > Len(trucks) THEN 0
    ELSE IF /\ trucks[j].x1 <= p.cx /\ p.cx <= trucks[j].x2
            /\ trucks[j].y1 <= p.cy /\ p.cy <= trucks[j].y2
         THEN j
         ELSE FirstContaining(p, trucks, j + 1)

\* a faulty variant of the inner loop: no break, the last containing truck wins
MatchLastTruck(p, trucks) ==
    LET S == {j \in 1..Len(trucks) :
                 /\ trucks[j].x1 <= p.cx /\ p.cx <= trucks[j].x2
                 /\ trucks[j].y1 <= p.cy /\ p.cy <= trucks[j].y2}
    IN  IF S = {} THEN 0 ELSE CHOOSE j \in S : \A k \in S : k <= j

\* a faulty variant of the inner loop: trucks outside the region are passed
\* over, the first containing truck inside the region wins
MatchFirstTruckInRoi(p, trucks) ==
    LET S == {j \in 1..Len(trucks) :
                 /\ trucks[j].x1 <= p.cx /\ p.cx <= trucks[j].x2
                 /\ trucks[j].y1 <= p.cy /\ p.cy <= trucks[j].y2
                 /\ trucks[j].in_roi}
    IN  IF S = {} THEN FirstContaining(p, trucks, 1)
        ELSE CHOOSE j \in S : \A k \in S : j <= k

\* the inner loop  for t in trucks  of one plate: the truck it breaks at
MatchTruck(p, trucks) == FirstContaining(p, trucks, 1)

\* the number of auto snapshots in the record of an association loop
RECURSIVE NumFired(_)
NumFired(log) ==
    IF log = <<>> THEN 0 ELSE (IF Head(log).fired THEN 1 ELSE 0) + NumFired(Tail(log))

\* for p in plates, from plate i on: acc carries last_plate_text,
\* last_snapshot_ts and the record of what was done for each plate
RECURSIVE Associate(_, _, _)
Associate(ctx, i, acc) ==
    IF i > Len(ctx.plates) THEN acc
    ELSE LET p == ctx.plates[i]
             j == MatchTruck(p, ctx.trucks)
             acts == j # 0 /\ ctx.trucks[j].in_roi /\ p.in_roi
             plate_text == OrUnknown(ocr_plate_image(CropEmpty(p), ctx.ocr[i]))
             fire == acts /\ RateLimitOpen(ctx.now, acc.last_snapshot_ts, ctx.interval)
             snap == SaveSnapshot(ctx.send_to_tg, ctx.write_ok)
             entry == [truck |-> j, acted |-> acts,
                       answer |-> IF acts THEN ctx.ocr[i] ELSE OcrNothing,
                       text |-> IF acts THEN plate_text ELSE <<>>,
                       fired |-> fire,
                       prefix |-> IF fire THEN OrUnknown(sanitize_plate_text(plate_text))
                                  ELSE <<>>,
                       saved |-> fire /\ snap.saved,
                       forwarded |-> fire /\ snap.forwarded]
         IN  Associate(ctx, i + 1,
                 [last_plate_text |-> IF acts THEN plate_text ELSE acc.last_plate_text,
                  last_snapshot_ts |-> IF fire THEN ctx.now ELSE acc.last_snapshot_ts,
                  log |-> Append(acc.log, entry)])

\* the detection part of one iteration of generate_frames(cam_id)
TruckDetect(enabled, idx, scene, rects, cam_id) ==
    LET detection_ran == enabled /\ (idx % RUN_EVERY_N = 0) IN
    IF ~detection_ran
    THEN [detection_ran |-> FALSE, trucks |-> <<>>, plates |-> <<>>,
          frame_truck_count |-> 0]
    ELSE LET Build(trucks) ==
                 [detection_ran |-> TRUE, trucks |-> trucks,
                  plates |-> PlateDetections(scene.plates, rects, cam_id),
                  frame_truck_count |-> CountInRoi(trucks)]
         IN  Build(TruckDetections(scene.trucks, rects, cam_id))

\* the event counter of one frame: the new (total_truck_events, prev_any_truck)
TruckEvents(enabled, any_truck, prev, total) ==
    IF enabled
    THEN [total |-> IF any_truck /\ ~prev THEN total + 1 ELSE total,
          prev |-> any_truck]
    ELSE [total |-> total, prev |-> FALSE]

\* the rest of the iteration: counters, association with OCR and auto snapshot,
\* published status, frame buffer
TruckApply(cam_id, s, idx, now, d, ocr, write_ok) ==
    LET enabled == s.detect_enabled
        any_truck == d.detection_ran /\ d.frame_truck_count > 0
        truck_count == IF d.detection_ran THEN d.frame_truck_count
                       ELSE s.last_truck_count
        ev == TruckEvents(enabled, any_truck, s.prev_any_truck, s.total_truck_events)
        acc0 == [last_plate_text |-> s.last_plate_text,
                 last_snapshot_ts |-> s.last_snapshot_ts, log |-> <<>>]
        Finish(acc) ==
            LET fired == NumFired(acc.log) > 0
                o == tk_obs[cam_id]
            IN
            \* save_snapshot writes only when the dispatcher fires
            /\ fired \/ write_ok
            /\ clock' = now
            /\ truck' = [truck EXCEPT ![cam_id] =
                  [s EXCEPT !.last_truck_count = truck_count,
                            !.total_truck_events = ev.total,
                            !.prev_any_truck = ev.prev,
                            !.last_plate_text = acc.last_plate_text,
                            !.last_snapshot_ts = acc.last_snapshot_ts,
                            !.last_status =
                                [text |-> IF ~enabled THEN "DETECTION OFF"
                                          ELSE IF truck_count > 0 THEN "TRUCK DETECTED"
                                          ELSE "NO TRUCK",
                                 truck_count |-> truck_count,
                                 total_truck_events |-> ev.total,
                                 last_plate_text |-> acc.last_plate_text],
                            !.last_frame_for_snapshot = idx]]
            /\ tk_op' = [op |-> "frame", cam |-> cam_id, fired |-> fired,
                         write_ok |-> write_ok,
                         saved |-> \E i \in 1..Len(acc.log) : acc.log[i].saved,
                         forwarded |-> \E i \in 1..Len(acc.log) : acc.log[i].forwarded,
                         ok |-> TRUE,
                         trucks |-> d.trucks, plates |-> d.plates, assoc |-> acc.log]
            /\ tk_obs' = [tk_obs EXCEPT ![cam_id] =
                  [fire_ts |-> IF fired THEN now ELSE o.fire_ts,
                   fires |-> o.fires + NumFired(acc.log),
                   seen |-> IF ~enabled THEN FALSE
                            ELSE IF d.detection_ran THEN any_truck ELSE o.seen,
                   edges |-> IF d.detection_ran /\ any_truck /\ ~o.seen
                             THEN o.edges + 1 ELSE o.edges,
                   held |-> IF enabled /\ d.detection_ran /\ ~any_truck
                            THEN None ELSE o.held]]
            /\ UNCHANGED <<app, notTruck>>
    IN  IF enabled /\ d.detection_ran /\ d.trucks # <<>> /\ d.plates # <<>>
        THEN Finish(Associate([trucks |-> d.trucks, plates |-> d.plates, ocr |-> ocr,
                               now |-> now, interval |-> s.snapshot_interval_sec,
                               send_to_tg |-> SendToTg(s.mode), write_ok |-> write_ok],
                              1, acc0))
        ELSE Finish(acc0)

\* what the two detectors and the recognizer answer on one frame; ocr[i] is
\* the recognizer's answer on the crop of the i-th plate box
Scene(trucks, plates, ocr) == [trucks |-> trucks, plates |-> plates, ocr |-> ocr]

NoScene == Scene(<<>>, <<>>, <<>>)

\* the scenes the model explores, in a FrameW x FrameH frame: two overlapping
\* trucks with centers in cam1's ROI, a truck reaching over the frame's border
\* with its center outside the ROI, a car; plates centered in both trucks, in
\* TruckA only, in TruckB only, in no truck, in TruckB and the border truck,
\* and a plate box without height
TruckScenes ==
    LET TruckA == RawBox(7, 1, 1, 4, 6)
        TruckB == RawBox(7, 4, 1, 7, 6)
        TruckBorder == RawBox(7, 5, 5, 12, 12)
        CarA == RawBox(2, 1, 1, 4, 6)
        PlateBoth == RawBox(0, 3, 3, 5, 5)
        PlateOnlyA == RawBox(0, 1, 1, 3, 3)
        PlateOnlyB == RawBox(0, 4, 3, 6, 5)
        PlateNoTruck == RawBox(0, 3, 6, 5, 8)
        PlateCorner == RawBox(0, 4, 4, 6, 6)
        PlateFlat == RawBox(0, 2, 3, 4, 3)
    IN
    {NoScene,
     Scene(<<TruckBorder>>, <<>>, <<>>),
     Scene(<<CarA>>, <<PlateBoth>>, <<OcrAB123>>),
     Scene(<<TruckA>>, <<PlateBoth>>, <<OcrAB>>),
     Scene(<<TruckA, TruckB>>, <<PlateBoth>>, <<OcrDirty>>),
     Scene(<<TruckB, TruckA>>, <<PlateNoTruck, PlateBoth, PlateOnlyA>>,
           <<OcrAB123, OcrSymbols, OcrAB123>>),
     Scene(<<TruckBorder, TruckB>>, <<PlateCorner>>, <<OcrAB123>>),
     Scene(<<TruckA>>, <<PlateFlat>>, <<OcrAB123>>),
     Scene(<<TruckA, TruckB>>, <<PlateOnlyB, PlateBoth>>, <<OcrThai, OcrRaises>>)}

\* one iteration of the while-loop of the i-th generate_frames(cam_id) generator
TruckFrame(cam_id, i, gap, write_ok, scene) ==
    LET idx == tk_frame_idx[cam_id][i] + 1 IN
    /\ tk_frame_idx' = [tk_frame_idx EXCEPT ![cam_id][i] = idx]
    /\ TruckApply(cam_id, truck[cam_id], idx, clock + gap,
                  TruckDetect(truck[cam_id].detect_enabled, idx, scene, ROI_RECT, cam_id),
                  scene.ocr, write_ok)

\* an iteration of a running generator, on any answer of the detectors
TruckGenerateFrames ==
    /\ app = "truck"
    /\ \E cam_id \in CAMERA_IDS, gap \in FrameGaps, write_ok \in BOOLEAN :
        \E i \in DOMAIN tk_frame_idx[cam_id] :
            /\ tk_frame_idx[cam_id][i] < MaxFrames
            /\ \E scene \in IF truck[cam_id].detect_enabled
                               /\ ((tk_frame_idx[cam_id][i] + 1) % RUN_EVERY_N = 0)
                            THEN TruckScenes ELSE {NoScene} :
                  TruckFrame(cam_id, i, gap, write_ok, scene)

\* the cam argument of a request: a known camera, an unknown or missing one
CamRequests == {"cam1", "cam9"}

get_cam_from_request(req) == IF req \in CAMERA_IDS THEN req ELSE "cam1"

\* values of "cam" in a JSON body (no cam in the query string) that are no
\* strings: the arrays ["cam1"] and [], written as their text
UnhashableCams == {"[\"cam1\"]", "[]"}

\* 'cam_id not in CAMERAS' hashes cam_id: a JSON array or object as cam_id
\* raises TypeError (unhashable type) in get_cam_from_request
CamRaises(req) == req \in UnhashableCams

\* toggle_detection on a request for camera req; an exception of
\* get_cam_from_request leaves the handler (HTTP 500) before anything is assigned
TruckToggle(req) ==
    IF CamRaises(req)
    THEN /\ tk_op' = [TruckNoOp("control", "cam1") EXCEPT !.ok = FALSE]
         /\ UNCHANGED <<app, clock, truck, tk_frame_idx, tk_obs, notTruck>>
    ELSE
    LET cam_id == get_cam_from_request(req)
        new_state == ~truck[cam_id].detect_enabled
    IN  /\ truck' = [truck EXCEPT ![cam_id] =
              IF ~new_state
              THEN [@ EXCEPT !.detect_enabled = new_state,
                             !.last_status.text = "DETECTION OFF",
                             !.last_status.truck_count = 0]
              ELSE [@ EXCEPT !.detect_enabled = new_state]]
        /\ tk_op' = TruckNoOp("control", cam_id)
        /\ UNCHANGED <<app, clock, tk_frame_idx, tk_obs, notTruck>>

\* toggle_detection on camera cam_id, observed: when detection is turned off
\* while a truck is present and counted (prev_any_truck), the observation
\* holds total_truck_events as it is then; the frames keep it for as long as
\* no frame the detector ran on is without a truck
TruckToggleObserved(cam_id) ==
    LET s == truck[cam_id]
        new_state == ~s.detect_enabled
    IN  /\ app = "truck"
        /\ truck' = [truck EXCEPT ![cam_id] =
              IF ~new_state
              THEN [@ EXCEPT !.detect_enabled = new_state,
                             !.last_status.text = "DETECTION OFF",
                             !.last_status.truck_count = 0]
              ELSE [@ EXCEPT !.detect_enabled = new_state]]
        /\ tk_obs' = [tk_obs EXCEPT ![cam_id].held =
              IF new_state THEN @
              ELSE IF s.prev_any_truck THEN s.total_truck_events ELSE None]
        /\ tk_op' = TruckNoOp("control", cam_id)
        /\ UNCHANGED <<app, clock, tk_frame_idx, notTruck>>

\* POST /toggle_detection?cam=cam1
ToggleCam1 == TruckToggleObserved("cam1")

ReenableNext ==
    \/ TruckGenerateFrames
    \/ ToggleCam1

SpecReenable == TruckInit /\ [][ReenableNext]_vars

\* POST /toggle_detection
TruckToggleDetection == app = "truck" /\ \E req \in CamRequests : TruckToggle(req)

\* set_snapshot_interval on a request for camera req with the JSON body
TruckSetInterval(req, body) ==
    LET cam_id == get_cam_from_request(req) IN
    /\ truck' = [truck EXCEPT ![cam_id].snapshot_interval_sec =
          NormalizeInterval(body, TRUCK_SNAPSHOT_INTERVAL_OPTIONS,
                            TRUCK_DEFAULT_SNAPSHOT_INTERVAL)]
    /\ tk_op' = TruckNoOp("control", cam_id)
    /\ UNCHANGED <<app, clock, tk_frame_idx, tk_obs, notTruck>>

\* POST /set_snapshot_interval
TruckSetSnapshotInterval ==
    app = "truck" /\ \E req \in CamRequests, body \in IntervalRequests :
                        TruckSetInterval(req, body)

\* a faulty variant of set_send_mode: one mode for all cameras
TruckSetModeOfAll(req, body) ==
    LET cam_id == get_cam_from_request(req) IN
    /\ truck' = [c \in CAMERA_IDS |-> [truck[c] EXCEPT !.mode = NormalizeMode(body)]]
    /\ tk_op' = TruckNoOp("control", cam_id)
    /\ UNCHANGED <<app, clock, tk_frame_idx, tk_obs, notTruck>>

\* set_send_mode on a request for camera req with the JSON body
TruckSetMode(req, body) ==
    LET cam_id == get_cam_from_request(req) IN
    /\ truck' = [truck EXCEPT ![cam_id].mode = NormalizeMode(body)]
    /\ tk_op' = TruckNoOp("control", cam_id)
    /\ UNCHANGED <<app, clock, tk_frame_idx, tk_obs, notTruck>>

\* POST /set_send_mode
TruckSetSendMode ==
    app = "truck" /\ \E req \in CamRequests, body \in ModeRequests : TruckSetMode(req, body)

\* the outcome of POST /manual_snapshot on the camera's buffered frame
TruckManualOutcome(cam_id, frame, write_ok) ==
    IF frame = NoFrame
    THEN [TruckNoOp("manual", cam_id) EXCEPT !.ok = FALSE]
    ELSE LET snap == SaveSnapshot(TRUE, write_ok)
         IN  [TruckNoOp("manual", cam_id) EXCEPT !.write_ok = write_ok,
                                                 !.saved = snap.saved,
                                                 !.forwarded = snap.forwarded]

\* manual_snapshot on a request for camera req
TruckManual(req, write_ok) ==
    LET cam_id == get_cam_from_request(req) IN
    /\ truck[cam_id].last_frame_for_snapshot # NoFrame \/ write_ok
    /\ tk_op' = TruckManualOutcome(cam_id, truck[cam_id].last_frame_for_snapshot,
                                   write_ok)
    /\ UNCHANGED <<app, clock, truck, tk_frame_idx, tk_obs, notTruck>>

\* POST /manual_snapshot
TruckManualSnapshot ==
    app = "truck" /\ \E req \in CamRequests, write_ok \in BOOLEAN : TruckManual(req, write_ok)

TruckNext ==
    \/ TruckGenerateFrames
    \/ TruckToggleDetection
    \/ TruckSetSnapshotInterval
    \/ TruckSetSendMode
    \/ TruckManualSnapshot

SpecTruck == TruckInit /\ [][TruckNext]_vars

\* web_truck_plat_ocr_app.py with requests that name no configured camera: an
\* unknown name, no cam at all (the empty text), a JSON array as cam
UnknownCamRequests == {"cam9", ""} \cup UnhashableCams

\* POST /toggle_detection naming no configured camera
TruckToggleUnknown == app = "truck" /\ \E req \in UnknownCamRequests : TruckToggle(req)

CamIdsNext ==
    \/ TruckGenerateFrames
    \/ TruckToggleUnknown

SpecCamIds == TruckInit /\ [][CamIdsNext]_vars

-----------------------------------------------------------------------------
(* web_truck_plat_ocr_app.py with clients on several cameras *)

\* frames read by one generate_frames loop when several cameras stream
MaxCameraFrames == 2

\* the cameras streamed
CameraFeeds == {"cam1", "cam2"}

\* the cam argument of the requests: the cameras streamed, and an unknown one
CameraRequests == CameraFeeds \cup {"cam9"}

\* the scenes in front of the cameras: nothing, a truck with a plate in it
CameraScenes ==
    {NoScene,
     Scene(<<RawBox(7, 1, 1, 4, 6)>>, <<RawBox(0, 3, 3, 5, 5)>>, <<OcrAB123>>)}

CamerasInit ==
    /\ app = "truck"
    /\ clock = StartTime
    /\ truck = [c \in CAMERA_IDS |-> TruckCamInit]
    /\ tk_frame_idx = [c \in CAMERA_IDS |-> IF c \in CameraFeeds THEN <<0>> ELSE <<>>]
    /\ tk_op = TruckNoOp("init", "cam1")
    /\ tk_obs = [c \in CAMERA_IDS |-> TruckObsInit]
    /\ HelmetIdle
    /\ RoiIdle
    /\ PlateIdle
    /\ fn = NoFn
    /\ handlers = NoHandlers

\* an iteration of the generator of one of the cameras
CamerasGenerateFrames ==
    /\ app = "truck"
    /\ \E cam_id \in CAMERA_IDS, write_ok \in BOOLEAN :
        \E i \in DOMAIN tk_frame_idx[cam_id] :
            /\ tk_frame_idx[cam_id][i] < MaxCameraFrames
            /\ \E scene \in IF truck[cam_id].detect_enabled
                               /\ ((tk_frame_idx[cam_id][i] + 1) % RUN_EVERY_N = 0)
                            THEN CameraScenes ELSE {NoScene} :
                  TruckFrame(cam_id, i, 1, write_ok, scene)

CamerasToggleDetection == app = "truck" /\ \E req \in CameraRequests : TruckToggle(req)

CamerasSetSnapshotInterval ==
    app = "truck" /\ \E req \in CameraRequests : TruckSetInterval(req, Json("int", 3, <<>>))

CamerasSetSendMode ==
    app = "truck" /\ \E req \in CameraRequests : TruckSetMode(req, "manual")

CamerasManualSnapshot ==
    app = "truck" /\ \E req \in CameraRequests : TruckManual(req, TRUE)

CamerasNext ==
    \/ CamerasGenerateFrames
    \/ CamerasToggleDetection
    \/ CamerasSetSnapshotInterval
    \/ CamerasSetSendMode
    \/ CamerasManualSnapshot

SpecCameras == CamerasInit /\ [][CamerasNext]_vars

\* clients streaming one camera at a time
MaxClients == 2

\* GET /video_feed: the response is fed by a new generate_frames(cam_id)
\* generator, with its own capture and its own frame_idx = 0, for every request
VideoFeed ==
    /\ app = "truck"
    /\ \E req \in CamRequests :
          LET cam_id == get_cam_from_request(req) IN
          /\ Len(tk_frame_idx[cam_id]) < MaxClients
          /\ tk_frame_idx' = [tk_frame_idx EXCEPT ![cam_id] = Append(@, 0)]
          /\ tk_op' = TruckNoOp("video_feed", cam_id)
    /\ UNCHANGED <<app, clock, truck, tk_obs, notTruck>>

FeedsNext ==
    \/ VideoFeed
    \/ CamerasGenerateFrames
    \/ CamerasToggleDetection

SpecFeeds == TruckInit /\ [][FeedsNext]_vars

-----------------------------------------------------------------------------
(* basic python/opencv5.py: the helmet app with a region of interest *)

HELMET_CAMERA_IDS == {"cam1", "cam2"}
ROI_SNAPSHOT_INTERVAL_OPTIONS == {3, 5, 10, 15, 30, 60}
ROI_DEFAULT_SNAPSHOT_INTERVAL == 10

\* ROI_RECT of this program: cam1 narrowed, cam2 as shipped
HELMET_ROI_RECT ==
    [c \in HELMET_CAMERA_IDS |-> IF c = "cam1" THEN RoiNarrow ELSE RoiWholeFrame]

\* a faulty variant of is_helmet_label: the test for "no" is missing
is_helmet_label_any(label) ==
    LET l == Lower(label) IN
    IF Contains(s_no_hardhat, l) THEN FALSE
    ELSE Contains(s_hardhat, l) \/ Contains(s_helmet, l)

is_helmet_label(label) ==
    LET l == Lower(label) IN
    IF Contains(s_no_hardhat, l) THEN FALSE
    ELSE (Contains(s_hardhat, l) \/ Contains(s_helmet, l)) /\ ~Contains(s_no, l)

is_no_helmet_label(label) ==
    LET l == Lower(label) IN
    IF Contains(s_no_hardhat, l) THEN TRUE
    ELSE Contains(s_no, l) /\ (Contains(s_hardhat, l) \/ Contains(s_helmet, l))

\* the branch a box's label takes in the loop over results.boxes:
\* if is_no_helmet_label(label) ... elif is_helmet_label(label) ...
RoiLabelKind(label) ==
    IF is_no_helmet_label(label) THEN "no_helmet"
    ELSE IF is_helmet_label(label) THEN "helmet"
    ELSE "other"

\* the for-loop over results.boxes: each box clamped, with its label's kind and
\* whether its center is in the camera's ROI
RECURSIVE RoiDetections(_, _, _)
RoiDetections(boxes, rects, cam_id) ==
    IF boxes = <<>> THEN <<>>
    ELSE LET label == ClassLabel(CLASS_NAMES, Head(boxes).cls)
             c == ClampBox(Head(boxes), rects, cam_id)
             kind == RoiLabelKind(label)
         IN  <<[kind |-> kind, cx |-> c.cx, cy |-> c.cy, in_roi |-> c.in_roi]>>
             \o RoiDetections(Tail(boxes), rects, cam_id)

\* a faulty variant of the counting test: the ROI is ignored
CountedAnywhere(d, kind) == d.kind = kind

\* the test under which a box of a kind is counted:  if in_roi
Counted(d, kind) == d.kind = kind /\ d.in_roi

\* frame_helmet_count and frame_no_helmet_count: the boxes counted by the loop
RECURSIVE RoiFrameCounts(_)
RoiFrameCounts(dets) ==
    IF dets = <<>> THEN [helmet |-> 0, no_helmet |-> 0]
    ELSE LET rest == RoiFrameCounts(Tail(dets))
             d == Head(dets)
         IN  IF Counted(d, "no_helmet")
             THEN [rest EXCEPT !.no_helmet = @ + 1]
             ELSE IF Counted(d, "helmet")
             THEN [rest EXCEPT !.helmet = @ + 1]
             ELSE rest

\* the per-camera dictionaries at import
RoiCamInit ==
    [detect_enabled |-> TRUE,
     snapshot_interval_sec |-> ROI_DEFAULT_SNAPSHOT_INTERVAL,
     mode |-> "auto",
     last_pass_ts |-> None,
     last_fail_ts |-> None,
     last_snapshot_ts |-> 0,
     last_frame_for_snapshot |-> NoFrame,
     last_helmet_count |-> 0,
     last_no_helmet_count |-> 0,
     last_status |-> [pass_fail |-> "none", text |-> "NO DETECTION",
                      helmet_count |-> 0, no_helmet_count |-> 0]]

\* what an operation of this program did; for a frame, dets is the list of
\* detections, decision the branch the frame took ("fail", "pass", "none")
RoiNoOp(name, cam_id) ==
    [op |-> name, cam |-> cam_id, fired |-> FALSE, write_ok |-> TRUE,
     saved |-> FALSE, forwarded |-> FALSE, ok |-> TRUE,
     detection_ran |-> FALSE, dets |-> <<>>, decision |-> "none"]

RoiInit ==
    /\ app = "roi"
    /\ clock = StartTime
    /\ roi_cam = [c \in HELMET_CAMERA_IDS |-> RoiCamInit]
    /\ r_frame_idx = [c \in HELMET_CAMERA_IDS |-> 0]
    /\ r_op = RoiNoOp("init", "cam1")
    /\ HelmetIdle
    /\ TruckIdle
    /\ PlateIdle
    /\ fn = NoFn
    /\ handlers = NoHandlers

\* the detection part of one iteration of generate_frames(cam_id)
RoiDetect(enabled, idx, boxes, rects, cam_id) ==
    LET detection_ran == enabled /\ (idx % RUN_EVERY_N = 0) IN
    IF ~detection_ran
    THEN [detection_ran |-> FALSE, dets |-> <<>>, frame_helmet_count |-> 0,
          frame_no_helmet_count |-> 0]
    ELSE LET Build(dets) ==
                 LET cnt == RoiFrameCounts(dets)
                 IN  [detection_ran |-> TRUE, dets |-> dets,
                      frame_helmet_count |-> cnt.helmet,
                      frame_no_helmet_count |-> cnt.no_helmet]
         IN  Build(RoiDetections(boxes, rects, cam_id))

\* the rest of the iteration: counts, PASS / FAIL decision, auto snapshot,
\* published status, frame buffer
RoiApply(cam_id, s, idx, now, d, write_ok) ==
    LET enabled == s.detect_enabled
        any_no_helmet == d.detection_ran /\ d.frame_no_helmet_count > 0
        any_helmet == d.detection_ran /\ d.frame_helmet_count > 0
        helmet_count == IF d.detection_ran THEN d.frame_helmet_count
                        ELSE s.last_helmet_count
        no_helmet_count == IF d.detection_ran THEN d.frame_no_helmet_count
                           ELSE s.last_no_helmet_count
        fail_now == enabled /\ any_no_helmet
        pass_now == PassNow(enabled, any_no_helmet, any_helmet)
        new_fail == IF fail_now THEN now ELSE s.last_fail_ts
        new_pass == IF pass_now THEN now ELSE s.last_pass_ts
        fire == fail_now /\ RateLimitOpen(now, s.last_snapshot_ts, s.snapshot_interval_sec)
        snap == SaveSnapshot(SendToTg(s.mode), write_ok)
    IN
    \* save_snapshot writes only when the dispatcher fires
    /\ fire \/ write_ok
    /\ clock' = now
    /\ r_frame_idx' = [r_frame_idx EXCEPT ![cam_id] = idx]
    /\ roi_cam' = [roi_cam EXCEPT ![cam_id] =
          [s EXCEPT !.last_helmet_count = helmet_count,
                    !.last_no_helmet_count = no_helmet_count,
                    !.last_fail_ts = new_fail,
                    !.last_pass_ts = new_pass,
                    !.last_snapshot_ts = IF fire THEN now ELSE @,
                    !.last_status =
                        [pass_fail |-> PassFailState(enabled, new_pass, new_fail, now),
                         text |-> IF ~enabled THEN "DETECTION OFF"
                                  ELSE IF fail_now THEN "NO HELMET (ALERT) [ROI]"
                                  ELSE IF pass_now THEN "HELMET DETECTED [ROI]"
                                  ELSE "NO DETECTION",
                         helmet_count |-> helmet_count,
                         no_helmet_count |-> no_helmet_count],
                    !.last_frame_for_snapshot = idx]]
    /\ r_op' = [op |-> "frame", cam |-> cam_id, fired |-> fire, write_ok |-> write_ok,
                saved |-> fire /\ snap.saved, forwarded |-> fire /\ snap.forwarded,
                ok |-> TRUE, detection_ran |-> d.detection_ran, dets |-> d.dets,
                decision |-> IF fail_now THEN "fail"
                             ELSE IF pass_now THEN "pass" ELSE "none"]
    /\ UNCHANGED <<app, notRoi>>

\* the detector's answers the model explores: a no_hardhat and a hardhat box
\* with the center in cam1's ROI, each of them with the center outside, a person
RoiBatches ==
    LET RoiNegIn == RawBox(3, 2, 2, 4, 4)
        RoiNegOut == RawBox(3, 5, 5, 12, 12)
        RoiPosIn == RawBox(1, 3, 3, 5, 5)
        RoiPosOut == RawBox(1, 6, 6, 8, 8)
        RoiPerson == RawBox(6, 2, 2, 4, 4)
    IN
    {<<>>, <<RoiNegIn>>, <<RoiPosIn>>, <<RoiNegOut>>, <<RoiPosOut>>, <<RoiPerson>>,
     <<RoiNegIn, RoiPosOut>>, <<RoiNegOut, RoiPosIn>>, <<RoiPosIn, RoiNegIn>>,
     <<RoiNegIn, RoiNegOut, RoiNegIn>>}

\* the cameras of this program whose /video_feed is being streamed
RoiFeeds == {"cam1"}

\* one iteration of the while-loop of generate_frames(cam_id)
RoiGenerateFrames ==
    /\ app = "roi"
    /\ \E cam_id \in RoiFeeds, gap \in FrameGaps, write_ok \in BOOLEAN :
        /\ r_frame_idx[cam_id] < MaxFrames
        /\ \E boxes \in IF roi_cam[cam_id].detect_enabled
                           /\ ((r_frame_idx[cam_id] + 1) % RUN_EVERY_N = 0)
                        THEN RoiBatches ELSE {<<>>} :
              RoiApply(cam_id, roi_cam[cam_id], r_frame_idx[cam_id] + 1, clock + gap,
                       RoiDetect(roi_cam[cam_id].detect_enabled,
                                 r_frame_idx[cam_id] + 1, boxes, HELMET_ROI_RECT, cam_id),
                       write_ok)

RoiGetCam(req) == IF req \in HELMET_CAMERA_IDS THEN req ELSE "cam1"

\* POST /toggle_detection
RoiToggleDetection ==
    \E req \in CamRequests :
        LET cam_id == RoiGetCam(req)
            new_state == ~roi_cam[cam_id].detect_enabled
        IN  /\ app = "roi"
            /\ roi_cam' = [roi_cam EXCEPT ![cam_id] =
                  IF ~new_state
                  THEN [@ EXCEPT !.detect_enabled = new_state,
                                 !.last_pass_ts = None,
                                 !.last_fail_ts = None,
                                 !.last_status = [pass_fail |-> "none",
                                                  text |-> "DETECTION OFF",
                                                  helmet_count |-> 0,
                                                  no_helmet_count |-> 0]]
                  ELSE [@ EXCEPT !.detect_enabled = new_state]]
            /\ r_op' = RoiNoOp("control", cam_id)
            /\ UNCHANGED <<app, clock, r_frame_idx, notRoi>>

\* POST /set_snapshot_interval
RoiSetSnapshotInterval ==
    \E req \in CamRequests, body \in IntervalRequests :
        LET cam_id == RoiGetCam(req) IN
        /\ app = "roi"
        /\ roi_cam' = [roi_cam EXCEPT ![cam_id].snapshot_interval_sec =
              NormalizeInterval(body, ROI_SNAPSHOT_INTERVAL_OPTIONS,
                                ROI_DEFAULT_SNAPSHOT_INTERVAL)]
        /\ r_op' = RoiNoOp("control", cam_id)
        /\ UNCHANGED <<app, clock, r_frame_idx, notRoi>>

\* POST /set_send_mode
RoiSetSendMode ==
    \E req \in CamRequests, body \in ModeRequests :
        LET cam_id == RoiGetCam(req) IN
        /\ app = "roi"
        /\ roi_cam' = [roi_cam EXCEPT ![cam_id].mode = NormalizeMode(body)]
        /\ r_op' = RoiNoOp("control", cam_id)
        /\ UNCHANGED <<app, clock, r_frame_idx, notRoi>>

\* POST /manual_snapshot
RoiManualSnapshot ==
    \E req \in CamRequests, write_ok \in BOOLEAN :
        LET cam_id == RoiGetCam(req)
            frame == roi_cam[cam_id].last_frame_for_snapshot
            snap == SaveSnapshot(TRUE, write_ok)
        IN  /\ app = "roi"
            /\ frame # NoFrame \/ write_ok
            /\ r_op' = IF frame = NoFrame
                       THEN [RoiNoOp("manual", cam_id) EXCEPT !.ok = FALSE]
                       ELSE [RoiNoOp("manual", cam_id) EXCEPT !.write_ok = write_ok,
                                                              !.saved = snap.saved,
                                                              !.forwarded = snap.forwarded]
            /\ UNCHANGED <<app, clock, roi_cam, r_frame_idx, notRoi>>

RoiNext ==
    \/ RoiGenerateFrames
    \/ RoiToggleDetection
    \/ RoiSetSnapshotInterval
    \/ RoiSetSendMode
    \/ RoiManualSnapshot

SpecRoi == RoiInit /\ [][RoiNext]_vars

-----------------------------------------------------------------------------
(* web_plate_only_app.py: one camera, plate OCR, PLATE OK / BROKEN PLATE *)

BROKEN_ALERT_MIN_INTERVAL_SEC == 5

\* int(v / UPSCALE_FACTOR), UPSCALE_FACTOR = 1.8
Downscale(v) == (v * 10) \div 18

\* get_center_roi_rect(w, h), CENTER_ROI ratios 0.25, 0.75, 0.30, 0.80
get_center_roi_rect(w, h) ==
    [x1 |-> (25 * w) \div 100, x2 |-> (75 * w) \div 100,
     y1 |-> (30 * h) \div 100, y2 |-> (80 * h) \div 100]

box_center_in_roi(x1, y1, x2, y2, roi) ==
    LET cx == (x1 + x2) \div 2
        cy == (y1 + y2) \div 2
    IN  roi.x1 <= cx /\ cx <= roi.x2 /\ roi.y1 <= cy /\ cy <= roi.y2

\* the for-loop over results.boxes (boxes of the upscaled frame): the list plates
RECURSIVE CenterPlates(_, _)
CenterPlates(boxes, roi) ==
    IF boxes = <<>> THEN <<>>
    ELSE LET b == Head(boxes)
             rest == CenterPlates(Tail(boxes), roi)
             x1 == Max(0, Min(Downscale(b.x1), FrameW - 1))
             y1 == Max(0, Min(Downscale(b.y1), FrameH - 1))
             x2 == Max(0, Min(Downscale(b.x2), FrameW))
             y2 == Max(0, Min(Downscale(b.y2), FrameH))
         IN  IF ~(b.cls \in DOMAIN PLATE_CLASS_NAMES
                  /\ PLATE_CLASS_NAMES[b.cls] = s_license_plate)
             THEN rest
             ELSE IF ~box_center_in_roi(x1, y1, x2, y2, roi) THEN rest
             ELSE <<[x1 |-> x1, y1 |-> y1, x2 |-> x2, y2 |-> y2]>> \o rest

BoxArea(p) == (p.x2 - p.x1) * (p.y2 - p.y1)

\* plates.sort(key=area, reverse=True); plates[0]: the first box of the largest
\* area (the sort is stable), by its index in plates
LargestPlate(plates) ==
    CHOOSE i \in 1..Len(plates) :
        /\ \A k \in 1..Len(plates) : BoxArea(plates[k]) <= BoxArea(plates[i])
        /\ \A k \in 1..(i - 1) : BoxArea(plates[k]) < BoxArea(plates[i])

\* sanitize_plate
sanitize_plate(text) ==
    IF text = <<>> THEN <<>> ELSE SelectSeq(text, PlateCharAllowed)

\* ocr_plate on the crop of the chosen box
ocr_plate(crop_empty, answer) ==
    IF crop_empty THEN <<>>
    ELSE IF answer.raises THEN <<>>
    ELSE IF answer.results = <<>> THEN <<>>
    ELSE sanitize_plate(Join(answer.results))

\* a faulty variant of the test: two characters are enough
PlateIsGoodTwo(text) == text # <<>> /\ Len(text) >= 2

\* the test  text and len(text) >= 3  that separates GOOD from BROKEN
PlateIsGood(text) == text # <<>> /\ Len(text) >= 3

\* the dictionaries of cam1 at import
PlateInit ==
    /\ app = "plate"
    /\ clock = StartTime
    /\ plate = [detect_enabled |-> TRUE,
                good_plate_count |-> 0,
                broken_plate_count |-> 0,
                last_plate_text |-> <<>>,
                last_broken_alert_ts |-> 0,
                last_status |-> [text |-> "NO DETECTION", good_plate_count |-> 0,
                                 broken_plate_count |-> 0, last_plate_text |-> <<>>]]
    /\ p_frame_i = 0
    /\ p_op = [op |-> "init", plates |-> <<>>, chosen |-> 0, answer |-> OcrNothing,
               text |-> <<>>, outcome |-> "none", alerted |-> FALSE,
               snapshot |-> <<>>]
    /\ HelmetIdle
    /\ TruckIdle
    /\ RoiIdle
    /\ fn = NoFn
    /\ handlers = NoHandlers

\* one iteration of generate_frames on the plates found in the center ROI (the
\* status text of a good plate is "PLATE OK: " and the text, which last_status
\* carries in last_plate_text)
PlateApply(idx, now, plates, answer) ==
    LET chosen == IF plates = <<>> THEN 0 ELSE LargestPlate(plates)
        text == IF chosen = 0 THEN <<>>
                ELSE ocr_plate(CropEmpty(plates[chosen]), answer)
        good == chosen # 0 /\ PlateIsGood(text)
        broken == chosen # 0 /\ ~PlateIsGood(text)
        alert == broken /\ now - plate.last_broken_alert_ts > BROKEN_ALERT_MIN_INTERVAL_SEC
        new_good == IF good THEN plate.good_plate_count + 1 ELSE plate.good_plate_count
        new_broken == IF broken THEN plate.broken_plate_count + 1
                      ELSE plate.broken_plate_count
        new_text == IF good THEN text ELSE IF broken THEN <<>> ELSE plate.last_plate_text
    IN
    /\ clock' = now
    /\ p_frame_i' = idx
    /\ plate' = [plate EXCEPT
          !.good_plate_count = new_good,
          !.broken_plate_count = new_broken,
          !.last_plate_text = new_text,
          !.last_broken_alert_ts = IF alert THEN now ELSE @,
          !.last_status = [text |-> IF good THEN "PLATE OK"
                                    ELSE IF broken THEN "BROKEN PLATE (OCR FAIL)"
                                    ELSE "NO DETECTION",
                           good_plate_count |-> new_good,
                           broken_plate_count |-> new_broken,
                           last_plate_text |-> new_text]]
    /\ p_op' = [op |-> "frame", plates |-> plates, chosen |-> chosen,
                answer |-> IF chosen = 0 THEN OcrNothing ELSE answer,
                text |-> text,
                outcome |-> IF good THEN "good" ELSE IF broken THEN "broken" ELSE "none",
                alerted |-> alert,
                snapshot |-> IF good THEN sanitize_plate(text) ELSE <<>>]
    /\ UNCHANGED <<app, notPlate>>

\* what the detector and the recognizer answer on one frame
PlateScene(boxes, answer) == [boxes |-> boxes, answer |-> answer]

NoPlateScene == PlateScene(<<>>, OcrNothing)

\* the scenes the model explores, boxes on the upscaled frame: a plate in the
\* center ROI, a larger one, one outside the center, one without height, a box
\* of another class
PlateScenes ==
    LET PlateCenter == RawBox(0, 6, 6, 9, 9)
        PlateLarge == RawBox(0, 4, 4, 11, 11)
        PlateAside == RawBox(0, 0, 0, 3, 3)
        PlateThin == RawBox(0, 6, 8, 9, 8)
        PlateOther == RawBox(1, 6, 6, 9, 9)
    IN
    {NoPlateScene,
     PlateScene(<<PlateAside>>, OcrAB123),
     PlateScene(<<PlateOther>>, OcrAB123),
     PlateScene(<<PlateCenter>>, OcrAB),
     PlateScene(<<PlateCenter>>, OcrAB123),
     PlateScene(<<PlateCenter, PlateLarge>>, OcrDirty),
     PlateScene(<<PlateCenter>>, OcrRaises),
     PlateScene(<<PlateLarge>>, OcrSymbols),
     PlateScene(<<PlateThin>>, OcrAB123),
     PlateScene(<<PlateLarge, PlateCenter>>, OcrThai)}

\* one iteration of the while-loop of generate_frames("cam1")
PlateGenerateFrames ==
    /\ app = "plate"
    /\ p_frame_i < MaxFrames
    /\ \E gap \in FrameGaps :
         \E scene \in IF plate.detect_enabled /\ ((p_frame_i + 1) % RUN_EVERY_N = 0)
                      THEN PlateScenes ELSE {NoPlateScene} :
            PlateApply(p_frame_i + 1, clock + gap,
                       CenterPlates(scene.boxes, get_center_roi_rect(FrameW, FrameH)),
                       scene.answer)

\* POST /toggle_detection
PlateToggleDetection ==
    /\ app = "plate"
    /\ plate' = [plate EXCEPT !.detect_enabled = ~@]
    /\ p_op' = [op |-> "control", plates |-> <<>>, chosen |-> 0, answer |-> OcrNothing,
                text |-> <<>>, outcome |-> "none", alerted |-> FALSE,
                snapshot |-> <<>>]
    /\ UNCHANGED <<app, clock, p_frame_i, notPlate>>

PlateNext ==
    \/ PlateGenerateFrames
    \/ PlateToggleDetection

SpecPlate == PlateInit /\ [][PlateNext]_vars

-----------------------------------------------------------------------------
(* The programs' functions of one argument list, applied to an input *)

\* an input: a label, a point of a camera's frame, a box, a posted value
FnArg(kind, label, cam, x1, y1, x2, y2, json, mode) ==
    [kind |-> kind, label |-> label, cam |-> cam, x1 |-> x1, y1 |-> y1,
     x2 |-> x2, y2 |-> y2, json |-> json, mode |-> mode]

\* labels a detector's class table can hold
FnLabels ==
    {<<"h","a","r","d","h","a","t">>,
     <<"n","o","_","h","a","r","d","h","a","t">>,
     <<"h","e","l","m","e","t">>,
     <<"n","o","_","h","e","l","m","e","t">>,
     <<"N","O","-","H","a","r","d","h","a","t">>,
     <<"n","o"," ","h","a","r","d","h","a","t">>,
     <<"H","a","r","d","h","a","t">>,
     <<"N","o","_","H","e","l","m","e","t">>,
     <<"n","o","h","e","l","m","e","t">>,
     <<"p","e","r","s","o","n">>,
     <<"g","l","o","v","e","s">>,
     <<"n","o","_","g","l","o","v","e","s">>,
     <<"s","n","o","w","_","h","e","l","m","e","t">>,
     <<"7">>}

\* the inputs the functions are applied to: the labels, every point of the
\* frame (and one pixel beyond) on a camera with a narrowed region, one with the
\* shipped region and one without a region, boxes of the frame, the posted
\* values of the interval and of the mode
FnInputs ==
    {FnArg("label", l, "", 0, 0, 0, 0, Json("missing", 0, <<>>), "") : l \in FnLabels}
    \cup {FnArg("point", <<>>, c, x, y, 0, 0, Json("missing", 0, <<>>), "") :
              c \in {"cam1", "cam2", "cam9"}, x \in 0..FrameW, y \in 0..FrameH}
    \cup {FnArg("box", <<>>, "", x, y, x + dx, y + dy, Json("missing", 0, <<>>), "") :
              x \in 0..FrameW, y \in 0..FrameH, dx \in {1, 2}, dy \in {0, 1}}
    \cup {FnArg("interval", <<>>, "", 0, 0, 0, 0, j, "") : j \in IntervalValues}
    \cup {FnArg("mode", <<>>, "", 0, 0, 0, 0, Json("missing", 0, <<>>), m) :
              m \in ModeRequests \cup {"bogus", ""}}

FnInit ==
    /\ app = "functions"
    /\ clock = StartTime
    /\ fn \in {[f |-> "none", arg |-> a, out |-> <<>>] : a \in FnInputs}
    /\ handlers = NoHandlers
    /\ HelmetIdle
    /\ TruckIdle
    /\ RoiIdle
    /\ PlateIdle

\* the function f is applied to the input, with the result out
FnApply(kind, f, out) ==
    /\ app = "functions"
    /\ fn.f = "none"
    /\ fn.arg.kind = kind
    /\ fn' = [fn EXCEPT !.f = f, !.out = out]
    /\ UNCHANGED <<app, clock, hvars, tvars, rvars, pvars, handlers>>

\* the label's category in web_helmet_app.py and in opencv5.py, and the answers
\* of the two tests of opencv5.py
FnClassify ==
    FnApply("label", "classify",
            [helmet_app |-> HelmetNameKind(fn.arg.label),
             roi_app |-> RoiLabelKind(fn.arg.label),
             is_helmet |-> is_helmet_label(fn.arg.label),
             is_no_helmet |-> is_no_helmet_label(fn.arg.label)])

\* point_in_roi(cam, x, y) of web_truck_plat_ocr_app.py
FnPointInRoi ==
    FnApply("point", "point_in_roi",
            [inside |-> point_in_roi(ROI_RECT, fn.arg.cam, fn.arg.x1, fn.arg.y1)])

\* box_center_in_roi(x1, y1, x2, y2, roi_rect) of web_plate_only_app.py
FnBoxCenterInRoi ==
    FnApply("box", "box_center_in_roi",
            [inside |-> box_center_in_roi(fn.arg.x1, fn.arg.y1, fn.arg.x2, fn.arg.y2,
                                          get_center_roi_rect(FrameW, FrameH))])

\* the answer of set_snapshot_interval with the value it stores and returns, in
\* web_helmet_app.py and in web_truck_plat_ocr_app.py
FnSetSnapshotInterval ==
    FnApply("interval", "set_snapshot_interval",
            [helmet_app |-> IntervalOutcome(fn.arg.json, SNAPSHOT_INTERVAL_OPTIONS,
                                            DEFAULT_SNAPSHOT_INTERVAL),
             truck_app |-> IntervalOutcome(fn.arg.json, TRUCK_SNAPSHOT_INTERVAL_OPTIONS,
                                           TRUCK_DEFAULT_SNAPSHOT_INTERVAL)])

\* the value set_send_mode stores and returns
FnSetSendMode ==
    FnApply("mode", "set_send_mode", [mode |-> NormalizeMode(fn.arg.mode)])

FnNext ==
    \/ FnClassify
    \/ FnPointInRoi
    \/ FnBoxCenterInRoi
    \/ FnSetSnapshotInterval
    \/ FnSetSendMode

SpecFunctions == FnInit /\ [][FnNext]_vars

-----------------------------------------------------------------------------
(* The frame loops when a call inside an iteration fails: the recognizer's
   exception is caught in ocr_plate_image, a failed cv2.imwrite is a False
   result and the Telegram request is inside try / except, but the detector is
   called in the body of the while-loop, outside any try *)

\* helmet_model(frame, ...) raises on a frame the detector is called on: the
\* exception leaves the while-loop and ends the generator
HelmetDetectorRaises ==
    /\ app = "helmet"
    /\ h_loop.pc = "read"
    /\ frame_idx < MaxFrames
    /\ detect_enabled /\ ((frame_idx + 1) % RUN_EVERY_N = 0)
    /\ frame_idx' = frame_idx + 1
    /\ h_loop' = LoopAt("done", <<>>)
    /\ h_op' = NoOp("raise")
    /\ UNCHANGED <<app, clock, detect_enabled, snapshot_interval_sec, send_mode,
                   last_pass_ts, last_fail_ts, last_snapshot_ts,
                   last_frame_for_snapshot, last_helmet_count, last_no_helmet_count,
                   total_helmet_count, total_no_helmet_count, last_status,
                   h_fire_ts, h_fires, notHelmet>>

\* the sequence without its i-th element
RemoveAt(seq, i) == SubSeq(seq, 1, i - 1) \o SubSeq(seq, i + 1, Len(seq))

\* truck_model(frame, ...) or plate_model(frame, ...) raises in the i-th
\* generator of a camera: the generator ends
TruckDetectorRaises ==
    /\ app = "truck"
    /\ \E cam_id \in CAMERA_IDS :
        \E i \in DOMAIN tk_frame_idx[cam_id] :
            /\ tk_frame_idx[cam_id][i] < MaxFrames
            /\ truck[cam_id].detect_enabled
            /\ (tk_frame_idx[cam_id][i] + 1) % RUN_EVERY_N = 0
            /\ tk_frame_idx' = [tk_frame_idx EXCEPT ![cam_id] = RemoveAt(@, i)]
            /\ tk_op' = TruckNoOp("raise", cam_id)
    /\ UNCHANGED <<app, clock, truck, tk_obs, notTruck>>

FaultsNext ==
    \/ GenerateFrames
    \/ ToggleDetection
    \/ HelmetDetectorRaises
    \/ TruckGenerateFrames
    \/ TruckDetectorRaises

SpecFaults == (HelmetInit \/ TruckInit) /\ [][FaultsNext]_vars

-----------------------------------------------------------------------------
(* Runs of two programs side by side, for the properties that speak of both *)

\* web_helmet_app.py or opencv5.py
SpecHelmets == (HelmetInit \/ RoiInit) /\ [][HelmetNext \/ RoiNext]_vars

\* web_helmet_app.py or web_truck_plat_ocr_app.py
SpecDispatch == (HelmetInit \/ TruckInit) /\ [][HelmetNext \/ TruckNext]_vars

\* web_plate_only_app.py or web_truck_plat_ocr_app.py
SpecOcr == (PlateInit \/ TruckInit) /\ [][PlateNext \/ TruckNext]_vars

-----------------------------------------------------------------------------
(* Properties *)

\* both debounce timers are set and within their windows at the time of the
\* last evaluation (clock is the time of the last processed frame)
HelmetBothWindowsActive ==
    /\ detect_enabled
    /\ last_fail_ts # None /\ clock - last_fail_ts <= FAIL_SEC
    /\ last_pass_ts # None /\ clock - last_pass_ts <= PASS_SEC

RoiBothWindowsActive(c) ==
    /\ roi_cam[c].detect_enabled
    /\ roi_cam[c].last_fail_ts # None /\ clock - roi_cam[c].last_fail_ts <= FAIL_SEC
    /\ roi_cam[c].last_pass_ts # None /\ clock - roi_cam[c].last_pass_ts <= PASS_SEC

\* C1: in both helmet programs, whenever detection is enabled and both
\* last_fail_ts and last_pass_ts are set and within FAIL_SEC and PASS_SEC of the
\* evaluation time, the published pass_fail is "fail", never "pass".
C1_FailPrecedence ==
    /\ app = "helmet" => (HelmetBothWindowsActive => last_status.pass_fail = "fail")
    /\ app = "roi" => \A c \in HELMET_CAMERA_IDS :
                          RoiBothWindowsActive(c)
                              => roi_cam[c].last_status.pass_fail = "fail"

\* a frame was evaluated with both windows active: a PASS frame and then a FAIL
\* frame at most PASS_SEC later
C1_Witness ==
    /\ app = "helmet"
    /\ h_op.op = "frame"
    /\ HelmetBothWindowsActive
    /\ last_pass_ts < last_fail_ts
    /\ last_status.pass_fail = "fail"

\* a step in which the auto dispatcher fires: it fires once, and later than
\* the interval the firing frame read after the previous firing of the camera
RateLimitStep ==
    /\ app = "helmet" =>
          (h_fires' > h_fires =>
              /\ h_fires' = h_fires + 1
              /\ h_fire_ts = None \/ clock' - h_fire_ts > snapshot_interval_sec)
    /\ app = "truck" => \A c \in CAMERA_IDS :
          (tk_obs'[c].fires > tk_obs[c].fires =>
              /\ tk_obs'[c].fires = tk_obs[c].fires + 1
              /\ \/ tk_obs[c].fire_ts = None
                 \/ clock' - tk_obs[c].fire_ts > truck[c].snapshot_interval_sec)

\* C2: on every camera, over any sequence of frames and control operations, two
\* consecutive auto firings at t1 < t2 have t2 - t1 greater than the
\* snapshot_interval_sec read by the frame that fired at t2.
C2_RateLimit == [][RateLimitStep]_vars

\* the dispatcher of a camera has fired, and fired again in a later frame
C2_Witness ==
    /\ app = "truck"
    /\ tk_obs["cam1"].fires >= 2
    /\ tk_op.op = "frame" /\ tk_op.fired

\* C3 as stated: every manual capture persists a snapshot and reports success.
C3_ManualAlwaysSucceeds ==
    /\ (app = "helmet" /\ h_op.op = "manual") => (h_op.ok /\ h_op.saved)
    /\ (app = "truck" /\ tk_op.op = "manual") => (tk_op.ok /\ tk_op.saved)

\* C3: a manual capture reports success exactly when a frame has been buffered
\* for the camera, whatever the rate-limit timer, the trigger condition and
\* detect_enabled are, and the snapshot is persisted exactly when in addition
\* the image write succeeds; before the first frame it answers with an error.
C3_ManualWhenFrame ==
    /\ (app = "helmet" /\ h_op.op = "manual") =>
          /\ h_op.ok <=> (last_frame_for_snapshot # NoFrame)
          /\ h_op.saved <=> (h_op.ok /\ h_op.write_ok)
    /\ (app = "truck" /\ tk_op.op = "manual") =>
          /\ tk_op.ok <=> (truck[tk_op.cam].last_frame_for_snapshot # NoFrame)
          /\ tk_op.saved <=> (tk_op.ok /\ tk_op.write_ok)

\* a manual capture that succeeded with detection off, right after an auto
\* firing, inside the rate-limit window
C3_Witness ==
    /\ app = "helmet"
    /\ h_op.op = "manual" /\ h_op.ok /\ h_op.saved
    /\ ~detect_enabled
    /\ h_fires > 0
    /\ clock - last_snapshot_ts <= snapshot_interval_sec

\* C4 as stated: an auto event that fires is persisted, and forwarded exactly in
\* mode auto; a manual capture is persisted and forwarded.
C4_ForwardGateAsStated ==
    /\ (app = "helmet" /\ h_op.op = "frame" /\ h_op.fired)
          => (h_op.saved /\ (h_op.forwarded <=> send_mode = "auto"))
    /\ (app = "helmet" /\ h_op.op = "manual" /\ h_op.ok)
          => (h_op.saved /\ h_op.forwarded)

\* C4: an auto event is persisted exactly when it fires and the image write
\* succeeds, and a persisted auto event is forwarded exactly in mode auto; a
\* manual capture is forwarded exactly when it is persisted, in both modes.
C4_ForwardGate ==
    /\ (app = "helmet" /\ h_op.op = "frame")
          => /\ h_op.saved <=> (h_op.fired /\ h_op.write_ok)
             /\ h_op.forwarded <=> (h_op.saved /\ send_mode = "auto")
    /\ (app = "helmet" /\ h_op.op = "manual")
          => /\ h_op.saved <=> (h_op.ok /\ h_op.write_ok)
             /\ h_op.forwarded <=> h_op.saved

\* in mode manual, after an auto firing, a manual capture is persisted and
\* forwarded
C4_Witness ==
    /\ app = "helmet"
    /\ send_mode = "manual"
    /\ h_fires > 0
    /\ h_op.op = "manual" /\ h_op.saved /\ h_op.forwarded

\* C5 as stated: while detection is disabled the published status is OFF, the
\* displayed counts are zero and both timers are cleared.
C5_DisabledIsOff ==
    (app = "helmet" /\ ~detect_enabled)
        => /\ last_status.pass_fail = "none"
           /\ last_status.text = "DETECTION OFF"
           /\ last_status.helmet_count = 0
           /\ last_status.no_helmet_count = 0
           /\ last_pass_ts = None
           /\ last_fail_ts = None

CountersStep ==
    app = "helmet" =>
        /\ total_helmet_count' >= total_helmet_count
        /\ total_no_helmet_count' >= total_no_helmet_count
        /\ (detect_enabled' # detect_enabled)
              => /\ total_helmet_count' = total_helmet_count
                 /\ total_no_helmet_count' = total_no_helmet_count

\* C6: total_helmet_count and total_no_helmet_count never decrease in any step,
\* and a step that toggles detection, in either direction, leaves both unchanged.
C6_CountersMonotone == [][CountersStep]_vars

\* detection was toggled off after both counters had counted
C6_Witness ==
    /\ app = "helmet"
    /\ ~detect_enabled
    /\ total_helmet_count > 0
    /\ total_no_helmet_count > 0

\* C7 as stated: total_truck_events equals the number of absent-to-present
\* transitions of "in-ROI truck present" between the frames the detector ran on.
C7_EventsAreRisingEdges ==
    app = "truck" =>
        \A c \in CAMERA_IDS : truck[c].total_truck_events = tk_obs[c].edges

\* the trucks whose box contains the center of a plate
ContainingTrucks(p, trucks) ==
    {j \in 1..Len(trucks) :
        /\ trucks[j].x1 <= p.cx /\ p.cx <= trucks[j].x2
        /\ trucks[j].y1 <= p.cy /\ p.cy <= trucks[j].y2}

\* C8: in the association loop of a frame, a plate whose center is in no truck
\* box is not associated (no OCR, no dispatch), and a plate whose center is in
\* one or several truck boxes is associated with the first of them in
\* detection order and with no other.
C8_Association ==
    (app = "truck" /\ tk_op.op = "frame") =>
        /\ Len(tk_op.assoc) \in {0, Len(tk_op.plates)}
        /\ Len(tk_op.assoc) = 0 => (~tk_op.fired /\ (tk_op.trucks = <<>> \/ tk_op.plates = <<>>))
        /\ \A i \in 1..Len(tk_op.assoc) :
              LET S == ContainingTrucks(tk_op.plates[i], tk_op.trucks)
                  e == tk_op.assoc[i]
              IN  /\ S = {} => (e.truck = 0 /\ ~e.acted /\ ~e.fired)
                  /\ S # {} => (e.truck \in S /\ \A k \in S : e.truck <= k)
                  /\ e.acted => (e.truck # 0 /\ tk_op.trucks[e.truck].in_roi)

\* one frame with a plate in no truck, a plate in exactly one truck and a plate
\* in two overlapping trucks, the last two acted upon
C8_Witness ==
    /\ app = "truck"
    /\ tk_op.op = "frame"
    /\ \E i, j, k \in 1..Len(tk_op.assoc) :
          /\ ContainingTrucks(tk_op.plates[i], tk_op.trucks) = {}
          /\ Cardinality(ContainingTrucks(tk_op.plates[j], tk_op.trucks)) = 1
          /\ tk_op.assoc[j].acted
          /\ Cardinality(ContainingTrucks(tk_op.plates[k], tk_op.trucks)) = 2
          /\ tk_op.assoc[k].acted /\ tk_op.assoc[k].truck = 1

\* the detections of a kind whose center is in the camera's rectangle
InRoiOfKind(dets, kind, rect) ==
    {i \in 1..Len(dets) :
        /\ dets[i].kind = kind
        /\ rect.x1 <= dets[i].cx /\ dets[i].cx <= rect.x2
        /\ rect.y1 <= dets[i].cy /\ dets[i].cy <= rect.y2}

\* C9: on a frame the detector ran on, the published counts are the numbers of
\* no-helmet and helmet detections whose center is in the camera's ROI, and the
\* frame decision is FAIL if there is such a no-helmet detection, else PASS if
\* there is such a helmet detection, else neither; detections outside the ROI
\* contribute to nothing.
C9_RoiGating ==
    (app = "roi" /\ r_op.op = "frame" /\ r_op.detection_ran) =>
        LET neg == InRoiOfKind(r_op.dets, "no_helmet", HELMET_ROI_RECT[r_op.cam])
            pos == InRoiOfKind(r_op.dets, "helmet", HELMET_ROI_RECT[r_op.cam])
            st == roi_cam[r_op.cam].last_status
        IN  /\ st.no_helmet_count = Cardinality(neg)
            /\ st.helmet_count = Cardinality(pos)
            /\ r_op.decision = IF neg # {} THEN "fail"
                               ELSE IF pos # {} THEN "pass" ELSE "none"
            /\ r_op.fired => neg # {}

\* one no-helmet detection in the ROI and one helmet detection outside: FAIL,
\* counts 0 and 1
C9_Witness ==
    /\ app = "roi"
    /\ r_op.op = "frame" /\ r_op.detection_ran
    /\ Len(r_op.dets) = 2
    /\ \E i, j \in 1..2 :
          /\ r_op.dets[i].kind = "no_helmet" /\ r_op.dets[i].in_roi
          /\ r_op.dets[j].kind = "helmet" /\ ~r_op.dets[j].in_roi
    /\ r_op.decision = "fail"
    /\ roi_cam[r_op.cam].last_status.helmet_count = 0
    /\ roi_cam[r_op.cam].last_status.no_helmet_count = 1

\* the recognizer's fragments concatenated and reduced to the allowed characters
\* (nothing when the recognizer raises)
Recognized(answer) ==
    IF answer.raises THEN <<>> ELSE SelectSeq(Join(answer.results), PlateCharAllowed)

\* the plate-only program classifies the recognized text of the chosen box:
\* shorter than 3, BROKEN with no payload; otherwise GOOD with the text as payload
PlateOnlyClassifies ==
    (app = "plate" /\ p_op.op = "frame" /\ p_op.chosen # 0) =>
        LET t == IF CropEmpty(p_op.plates[p_op.chosen]) THEN <<>>
                 ELSE Recognized(p_op.answer)
        IN  /\ p_op.text = t
            /\ Len(t) < 3 => (p_op.outcome = "broken" /\ plate.last_plate_text = <<>>)
            /\ Len(t) >= 3 => (p_op.outcome = "good" /\ plate.last_plate_text = t
                               /\ p_op.snapshot = t)

HasNegativeMarker(label) ==
    LET l == Lower(label) IN
    \/ Contains(s_no_hardhat, l)
    \/ (Contains(s_no, l) /\ (Contains(s_hardhat, l) \/ Contains(s_helmet, l)))

\* C11 as stated: the category is a function of the label, and a label with the
\* negative marker is classified no-helmet (PRIMARY_NEGATIVE) by both programs,
\* never helmet, although hardhat or helmet is a substring of it.
C11_NegativeMarkerWins ==
    (app = "functions" /\ fn.f = "classify" /\ HasNegativeMarker(fn.arg.label))
        => (fn.out.helmet_app = "no_helmet" /\ fn.out.roi_app = "no_helmet")

\* C12: point_in_roi is true for every point of a camera without a region, and
\* for a camera with a region exactly for the points with x in x1..x2 and y in
\* y1..y2, the four edges included; box_center_in_roi is true exactly when the
\* center ((x1 + x2) div 2, (y1 + y2) div 2) is in the rectangle, edges included.
C12_RoiInclusive ==
    /\ (app = "functions" /\ fn.f = "point_in_roi") =>
          IF fn.arg.cam \in DOMAIN ROI_RECT
          THEN LET r == ROI_RECT[fn.arg.cam]
               IN  fn.out.inside <=> (fn.arg.x1 \in r.x1..r.x2 /\ fn.arg.y1 \in r.y1..r.y2)
          ELSE fn.out.inside
    /\ (app = "functions" /\ fn.f = "box_center_in_roi") =>
          LET r == get_center_roi_rect(FrameW, FrameH)
          IN  fn.out.inside <=>
                  /\ (fn.arg.x1 + fn.arg.x2) \div 2 \in r.x1..r.x2
                  /\ (fn.arg.y1 + fn.arg.y2) \div 2 \in r.y1..r.y2

\* the corner (x2, y2) of cam1's region was found inside
C12_Witness ==
    /\ app = "functions"
    /\ fn.f = "point_in_roi"
    /\ fn.arg.cam = "cam1"
    /\ fn.arg.x1 = ROI_RECT["cam1"].x2 /\ fn.arg.y1 = ROI_RECT["cam1"].y2
    /\ fn.out.inside

\* the fields of the globals that the claim compares: the timers, the published
\* status with its counts, and detect_enabled
RaceView(g) ==
    [detect_enabled |-> g.detect_enabled, last_pass_ts |-> g.last_pass_ts,
     last_fail_ts |-> g.last_fail_ts, last_snapshot_ts |-> g.last_snapshot_ts,
     last_status |-> g.last_status]

\* the globals after the frame's iteration and then the toggle, and after the
\* toggle and then the frame's iteration (which then reads detection off), both
\* run whole from the globals g0 on the same frame at the same instant
FrameThenToggle(l, now, write_ok) ==
    ToggleOutcome(HelmetFrame(l.g0, l.detect_enabled, l.snapshot_interval_sec, now,
                              HelmetDetect(l.detect_enabled, l.frame_idx, l.boxes),
                              write_ok).g)

ToggleThenFrame(l, now, write_ok) ==
    LET g1 == ToggleOutcome(l.g0)
    IN  HelmetFrame(g1, g1.detect_enabled, l.snapshot_interval_sec, now,
                    HelmetDetect(g1.detect_enabled, l.frame_idx, l.boxes), write_ok).g

\* C13 as stated: when detection is toggled OFF while a frame is in flight, the
\* state after the frame (timers, published status and counts, detect_enabled)
\* is the state of one of the two serial orders, frame then toggle or toggle
\* then frame.
C13_ToggleSerializable ==
    (/\ app = "helmet"
     /\ h_op.op = "frame"
     /\ h_loop.pc = "read"
     /\ h_loop.local # <<>>
     /\ h_loop.local.toggled
     /\ h_loop.local.g0.detect_enabled)
        => \/ RaceView(HelmetGlobals)
                = RaceView(FrameThenToggle(h_loop.local, clock, h_op.write_ok))
           \/ RaceView(HelmetGlobals)
                = RaceView(ToggleThenFrame(h_loop.local, clock, h_op.write_ok))

\* C14: every iteration of a camera's frame loop and every control operation
\* for a camera A leaves the state of every other camera B as it was: its
\* flags, timers, counters, published status, buffered frame and the frame
\* index of its loops.
C14_CameraIsolation ==
    [][app = "truck" =>
          \A b \in CAMERA_IDS :
              b # tk_op'.cam => (truck'[b] = truck[b] /\ tk_frame_idx'[b] = tk_frame_idx[b])]_vars

\* cam2's loop has fired an auto snapshot while cam1, with detection off and
\* its own interval and mode, still has its timer at zero
C14_Witness ==
    /\ app = "truck"
    /\ tk_op.op = "frame" /\ tk_op.cam = "cam2" /\ tk_op.fired
    /\ truck["cam2"].last_snapshot_ts = clock
    /\ truck["cam1"].last_snapshot_ts = 0
    /\ ~truck["cam1"].detect_enabled
    /\ truck["cam1"].mode = "manual"
    /\ truck["cam1"].snapshot_interval_sec # truck["cam2"].snapshot_interval_sec
    /\ tk_frame_idx["cam1"] # <<0>>

\* C15 as stated: whatever fails inside the processing of a frame (the detector
\* call, the recognizer, the image write, the forwarding), the camera's frame
\* loop goes on: the loop of web_helmet_app.py has not ended, and every camera
\* of web_truck_plat_ocr_app.py that was streamed still has its loop.
C15_LoopSurvives ==
    /\ app = "helmet" => h_loop.pc # "done"
    /\ app = "truck" => \A c \in TruckFeeds : tk_frame_idx[c] # <<>>

\* a frame in which the dispatcher attempts a snapshot comes later than the
\* interval after the timer's value
OneAttemptPerInterval ==
    (app = "helmet" /\ h_fires' > h_fires)
        => /\ h_fires' = h_fires + 1
           /\ clock' - last_snapshot_ts > snapshot_interval_sec

\* C16: when the auto dispatcher fires, last_snapshot_ts is set to the time of
\* the frame whether the image was written or not, so the timer always is the
\* time of the last attempt and at most one attempt is made per interval.
C16_TimerAdvancesOnAttempt ==
    /\ []((app = "helmet" /\ h_op.op = "frame" /\ h_op.fired) => last_snapshot_ts = clock)
    /\ []((app = "helmet" /\ h_fires > 0) => last_snapshot_ts = h_fire_ts)
    /\ [][OneAttemptPerInterval]_vars

\* the dispatcher fired on a frame whose image write failed, and after an
\* earlier attempt
C16_Witness ==
    /\ app = "helmet"
    /\ h_op.op = "frame" /\ h_op.fired
    /\ ~h_op.write_ok /\ ~h_op.saved
    /\ h_fires >= 2
    /\ last_snapshot_ts = clock

\* C17 as stated: set_snapshot_interval never rejects its input: whatever value
\* is posted, the request is answered (HTTP 200) and a value of the allowed set
\* is stored and returned (the default for an invalid one); set_send_mode with a
\* value other than auto and manual stores and returns auto.
C17_NormalizedNeverRejected ==
    /\ (app = "functions" /\ fn.f = "set_snapshot_interval") =>
          /\ fn.out.helmet_app.status = 200
          /\ fn.out.helmet_app.sec \in SNAPSHOT_INTERVAL_OPTIONS
          /\ fn.out.truck_app.status = 200
          /\ fn.out.truck_app.sec \in TRUCK_SNAPSHOT_INTERVAL_OPTIONS
    /\ (app = "functions" /\ fn.f = "set_send_mode") =>
          fn.out.mode = IF fn.arg.mode \in {"auto", "manual"} THEN fn.arg.mode ELSE "auto"

\* C18 as stated: whatever the number of clients, the state of a camera is
\* written by one generate_frames loop only: at most one loop of a camera has
\* processed frames.
C18_OneLoopPerCamera ==
    app = "truck" =>
        \A c \in CAMERA_IDS :
            Cardinality({i \in DOMAIN tk_frame_idx[c] : tk_frame_idx[c][i] > 0}) <= 1

\* the frame just processed had the detector run and found a person box, no
\* helmet box and no no-helmet box
PersonOnly(op) ==
    /\ op.op = "frame" /\ op.detection_ran
    /\ op.cnt.person > 0 /\ op.cnt.helmet = 0 /\ op.cnt.no_helmet = 0

\* the step is an iteration of the frame loop of web_helmet_app.py
HelmetFrameStep == app = "helmet" /\ frame_idx' = frame_idx + 1 /\ h_op'.op = "frame"

\* C19: a detection frame with at least one person box and neither a helmet
\* nor a no-helmet box is a no-helmet frame: last_fail_ts is the frame's time,
\* the frame's no-helmet count is 1, the session total grows by 1, and the auto
\* snapshot is taken exactly when the rate limit allows it.
C19_InferredNoHelmet ==
    /\ []((app = "helmet" /\ PersonOnly(h_op)) =>
              /\ last_fail_ts = clock
              /\ last_no_helmet_count = 1
              /\ last_status.no_helmet_count = 1
              /\ last_status.text = "NO HELMET (ALERT)"
              /\ last_status.pass_fail = "fail")
    /\ [][(HelmetFrameStep /\ PersonOnly(h_op')) =>
              /\ total_no_helmet_count' = total_no_helmet_count + 1
              /\ total_helmet_count' = total_helmet_count
              /\ h_op'.fired <=> (clock' - last_snapshot_ts > snapshot_interval_sec)]_vars

\* a person-only frame fired the auto snapshot, after an earlier no-helmet
\* frame
C19_Witness ==
    /\ app = "helmet"
    /\ PersonOnly(h_op)
    /\ h_op.fired /\ h_op.saved
    /\ total_no_helmet_count >= 2

RoiFrameStep(c) ==
    app = "roi" /\ r_frame_idx'[c] = r_frame_idx[c] + 1 /\ r_op'.op = "frame"

\* the timers of a frame with negatives neg and positives pos among its counted
\* detections: FAIL first, PASS only without a negative
TimerUpdate(neg, pos, now, pass_ts, fail_ts, pass_ts_after, fail_ts_after) ==
    /\ neg => (fail_ts_after = now /\ pass_ts_after = pass_ts)
    /\ (~neg /\ pos) => (pass_ts_after = now /\ fail_ts_after = fail_ts)
    /\ (~neg /\ ~pos) => (pass_ts_after = pass_ts /\ fail_ts_after = fail_ts)

\* C21: in a frame the detector ran on, with detection enabled: if there is a
\* counted (in-ROI) no-helmet detection, last_fail_ts becomes the frame's time
\* and last_pass_ts stays as it was, also when helmet detections are counted
\* too; last_pass_ts becomes the frame's time only when there is no counted
\* no-helmet and at least one counted helmet detection.
C21_FailBeforePass ==
    [][/\ (HelmetFrameStep /\ h_op'.detection_ran) =>
              TimerUpdate(h_op'.cnt.no_helmet > 0
                              \/ (h_op'.cnt.person > 0 /\ h_op'.cnt.helmet = 0),
                          h_op'.cnt.helmet > 0, clock',
                          last_pass_ts, last_fail_ts, last_pass_ts', last_fail_ts')
       /\ \A c \in HELMET_CAMERA_IDS :
              (RoiFrameStep(c) /\ r_op'.detection_ran) =>
                  TimerUpdate(InRoiOfKind(r_op'.dets, "no_helmet", HELMET_ROI_RECT[c]) # {},
                              InRoiOfKind(r_op'.dets, "helmet", HELMET_ROI_RECT[c]) # {},
                              clock',
                              roi_cam[c].last_pass_ts, roi_cam[c].last_fail_ts,
                              roi_cam'[c].last_pass_ts, roi_cam'[c].last_fail_ts)]_vars

\* a frame with a helmet and a no-helmet detection in the ROI, after a PASS
\* frame: last_fail_ts is the frame's time, last_pass_ts the earlier one
C21_Witness ==
    /\ app = "roi"
    /\ r_op.op = "frame" /\ r_op.detection_ran
    /\ InRoiOfKind(r_op.dets, "no_helmet", HELMET_ROI_RECT[r_op.cam]) # {}
    /\ InRoiOfKind(r_op.dets, "helmet", HELMET_ROI_RECT[r_op.cam]) # {}
    /\ roi_cam[r_op.cam].last_fail_ts = clock
    /\ roi_cam[r_op.cam].last_pass_ts # None
    /\ roi_cam[r_op.cam].last_pass_ts < clock

\* the step is an iteration on which the detector ran
HelmetDetectionStep == HelmetFrameStep /\ h_op'.detection_ran

\* C22: a frame whose index is not a multiple of RUN_EVERY_N is processed
\* without the detector; a frame processed without the detector leaves
\* last_pass_ts, last_fail_ts, last_snapshot_ts and the session totals as they
\* were and publishes the counts of the most recent frame the detector ran on
\* (last_helmet_count and last_no_helmet_count, which hold the counts of that
\* frame and are changed by no other step).
C22_SkippedFrameHolds ==
    /\ []((app = "helmet" /\ h_op.op = "frame" /\ h_op.detection_ran) =>
              /\ last_helmet_count = h_op.cnt.helmet
              /\ last_no_helmet_count =
                    IF h_op.cnt.no_helmet = 0 /\ h_op.cnt.helmet = 0 /\ h_op.cnt.person > 0
                    THEN 1 ELSE h_op.cnt.no_helmet)
    /\ [][(app = "helmet" /\ ~HelmetDetectionStep) =>
              /\ last_helmet_count' = last_helmet_count
              /\ last_no_helmet_count' = last_no_helmet_count]_vars
    /\ [][(HelmetFrameStep /\ frame_idx' % RUN_EVERY_N # 0) => ~h_op'.detection_ran]_vars
    /\ [][(HelmetFrameStep /\ ~h_op'.detection_ran) =>
              /\ last_pass_ts' = last_pass_ts
              /\ last_fail_ts' = last_fail_ts
              /\ last_snapshot_ts' = last_snapshot_ts
              /\ total_helmet_count' = total_helmet_count
              /\ total_no_helmet_count' = total_no_helmet_count
              /\ last_status'.helmet_count = last_helmet_count
              /\ last_status'.no_helmet_count = last_no_helmet_count
              /\ last_status'.total_helmet_count = total_helmet_count
              /\ last_status'.total_no_helmet_count = total_no_helmet_count]_vars

\* with detection on, a frame with an odd index was processed after a frame
\* that counted a helmet and a no-helmet box: it publishes these counts, and
\* the FAIL status of the earlier frame
C22_Witness ==
    /\ app = "helmet"
    /\ detect_enabled
    /\ h_op.op = "frame" /\ ~h_op.detection_ran
    /\ frame_idx % RUN_EVERY_N # 0
    /\ last_status.helmet_count = 1 /\ last_status.no_helmet_count = 1
    /\ last_fail_ts # None /\ last_fail_ts < clock
    /\ last_status.pass_fail = "fail"

\* the status of a frame at time now from the timers: FAIL within FAIL_SEC of
\* fail_ts, else PASS within PASS_SEC of pass_ts, else none
WindowStatus(pass_ts, fail_ts, now) ==
    IF fail_ts # None /\ now - fail_ts <= FAIL_SEC THEN "fail"
    ELSE IF pass_ts # None /\ now - pass_ts <= PASS_SEC THEN "pass"
    ELSE "none"

\* C23 as stated: a frame the detector ran on that has neither a helmet nor a
\* no-helmet detection leaves last_pass_ts and last_fail_ts unchanged.
C23_NoPrimaryKeepsTimers ==
    [][(HelmetDetectionStep /\ h_op'.cnt.helmet = 0 /\ h_op'.cnt.no_helmet = 0) =>
           (last_pass_ts' = last_pass_ts /\ last_fail_ts' = last_fail_ts)]_vars

\* C23: a frame the detector ran on that has no helmet, no no-helmet and no
\* person detection leaves last_pass_ts and last_fail_ts unchanged (it does not
\* clear them) and publishes the status their windows give at the frame's time,
\* so FAIL or PASS stays while its window has not elapsed; with a person
\* detection and neither of the two others the frame is a no-helmet frame and
\* sets last_fail_ts to its time.
C23_EmptyFrameKeepsTimers ==
    [][(HelmetDetectionStep /\ h_op'.cnt.helmet = 0 /\ h_op'.cnt.no_helmet = 0) =>
           IF h_op'.cnt.person = 0
           THEN /\ last_pass_ts' = last_pass_ts
                /\ last_fail_ts' = last_fail_ts
                /\ last_status'.pass_fail = WindowStatus(last_pass_ts, last_fail_ts, clock')
                /\ last_status'.text = "NO DETECTION"
           ELSE /\ last_pass_ts' = last_pass_ts
                /\ last_fail_ts' = clock'
                /\ last_status'.pass_fail = "fail"]_vars

\* the detector ran and found nothing, within FAIL_SEC of a no-helmet frame: the
\* timer is the earlier frame's time and the status still FAIL
C23_Witness ==
    /\ app = "helmet"
    /\ h_op.op = "frame" /\ h_op.detection_ran
    /\ h_op.cnt.helmet = 0 /\ h_op.cnt.no_helmet = 0 /\ h_op.cnt.person = 0
    /\ last_fail_ts # None /\ last_fail_ts < clock
    /\ last_status.pass_fail = "fail"
    /\ last_status.text = "NO DETECTION"

\* C24: with detection enabled, the status a frame publishes at its time now is
\* FAIL if last_fail_ts is set and now - last_fail_ts <= FAIL_SEC (FAIL at
\* exactly FAIL_SEC), else PASS if last_pass_ts is set and now - last_pass_ts <=
\* PASS_SEC, else none; so a frame later than both windows after the last
\* qualifying detection publishes none.
C24_WindowStatus ==
    (app = "helmet" /\ h_op.op = "frame" /\ detect_enabled) =>
        /\ last_status.pass_fail = WindowStatus(last_pass_ts, last_fail_ts, clock)
        /\ (/\ last_fail_ts = None \/ clock - last_fail_ts > FAIL_SEC
            /\ last_pass_ts = None \/ clock - last_pass_ts > PASS_SEC)
              => last_status.pass_fail = "none"

\* a detection frame exactly FAIL_SEC after the last no-helmet frame: FAIL
C24_Witness ==
    /\ app = "helmet"
    /\ detect_enabled
    /\ h_op.op = "frame"
    /\ h_op.detection_ran
    /\ last_fail_ts # None /\ clock - last_fail_ts = FAIL_SEC
    /\ last_status.pass_fail = "fail"

\* C25: turning detection off does not stop the frame loop: while it is off
\* the loop can still take its next frame, every frame it takes is processed
\* without a detector call and refreshes the frame buffer of the manual
\* snapshot, and once detection is on again the detector is called on every
\* frame whose index is a multiple of RUN_EVERY_N.
C25_LoopSurvivesDisable ==
    /\ []((app = "helmet" /\ ~detect_enabled /\ frame_idx < MaxFrames)
             => ENABLED GenerateFrames)
    /\ [][(HelmetFrameStep /\ ~detect_enabled) =>
             /\ ~h_op'.detection_ran
             /\ last_frame_for_snapshot' = frame_idx'
             /\ last_status'.text = "DETECTION OFF"]_vars
    /\ [][(HelmetFrameStep /\ detect_enabled) =>
             /\ h_op'.detection_ran = (frame_idx' % RUN_EVERY_N = 0)
             /\ last_frame_for_snapshot' = frame_idx']_vars

\* the detector has run on a frame after detection was turned off and on
\* again: an auto snapshot was taken earlier, and only turning detection off
\* clears the last_fail_ts that its frame had set
C25_Witness ==
    /\ app = "helmet"
    /\ detect_enabled
    /\ h_op.op = "frame"
    /\ h_op.detection_ran
    /\ h_fires > 0
    /\ last_fail_ts = None
    /\ last_frame_for_snapshot = frame_idx

\* what a step adds to the two session counters
TotalsGrowBy(helmets, no_helmets) ==
    /\ total_helmet_count' = total_helmet_count + helmets
    /\ total_no_helmet_count' = total_no_helmet_count + no_helmets

\* C26 as stated: the session counters start at 0, a frame the detector ran on
\* adds to each the frame's number of detections of its category, and every
\* other frame and every control operation adds nothing, so that each counter
\* is the sum of those numbers over the frames the detector ran on.
C26_TotalsAreBoxSums ==
    /\ (app = "helmet" => total_helmet_count = 0 /\ total_no_helmet_count = 0)
    /\ [][app = "helmet" =>
             IF HelmetDetectionStep
             THEN TotalsGrowBy(h_op'.cnt.helmet, h_op'.cnt.no_helmet)
             ELSE TotalsGrowBy(0, 0)]_vars

\* C26: the session counters start at 0; a frame the detector ran on adds its
\* number of helmet detections to the helmet counter and to the no-helmet
\* counter its number of no-helmet detections, or 1 if it has a person
\* detection and neither a helmet nor a no-helmet detection; every other frame
\* and every control operation adds nothing.
C26_TotalsAreFrameSums ==
    /\ (app = "helmet" => total_helmet_count = 0 /\ total_no_helmet_count = 0)
    /\ [][app = "helmet" =>
             IF HelmetDetectionStep
             THEN TotalsGrowBy(h_op'.cnt.helmet,
                               IF PersonOnly(h_op') THEN 1 ELSE h_op'.cnt.no_helmet)
             ELSE TotalsGrowBy(0, 0)]_vars

\* after a frame with a helmet and a no-helmet detection, a second frame the
\* detector ran on has only a person detection: the counters are 1 and 2
C26_Witness ==
    /\ app = "helmet"
    /\ PersonOnly(h_op)
    /\ total_helmet_count = 1
    /\ total_no_helmet_count = 2
    /\ last_status.total_no_helmet_count = 2

\* the frame just processed is a no-helmet frame: the detector ran and found
\* a no-helmet box, or a person box and no helmet box
Triggered(op) ==
    /\ op.op = "frame" /\ op.detection_ran
    /\ op.cnt.no_helmet > 0 \/ PersonOnly(op)

\* C27: a no-helmet frame takes the auto snapshot exactly when more than
\* snapshot_interval_sec have passed since last_snapshot_ts, and then sets
\* last_snapshot_ts to its time; the first no-helmet frame after startup
\* (last_snapshot_ts is 0 then) takes it; with an interval of 10 a no-helmet
\* frame 3 seconds after the one that took the snapshot takes none.
C27_DispatchWhenElapsed ==
    /\ [][(HelmetFrameStep /\ Triggered(h_op')) =>
             /\ h_op'.fired = (clock' - last_snapshot_ts > snapshot_interval_sec)
             /\ h_op'.fired => (last_snapshot_ts' = clock' /\ h_fires' = h_fires + 1)
             /\ ~h_op'.fired => (last_snapshot_ts' = last_snapshot_ts
                                  /\ ~h_op'.saved /\ ~h_op'.forwarded)]_vars
    /\ [][(HelmetFrameStep /\ Triggered(h_op') /\ h_fires = 0) =>
             (last_snapshot_ts = 0 /\ h_op'.fired)]_vars
    /\ [][(HelmetFrameStep /\ Triggered(h_op') /\ snapshot_interval_sec = 10
              /\ h_fire_ts # None /\ clock' - h_fire_ts = 3) => ~h_op'.fired]_vars

\* interval 10: the first no-helmet frame took the snapshot, and the no-helmet
\* frame 3 seconds later took none
C27_Witness ==
    /\ app = "helmet"
    /\ snapshot_interval_sec = 10
    /\ Triggered(h_op)
    /\ ~h_op.fired
    /\ h_fires = 1
    /\ h_fire_ts # None /\ clock - h_fire_ts = 3
    /\ last_snapshot_ts = h_fire_ts
    /\ last_fail_ts = clock

\* C28: when an auto snapshot is forwarded, a request that fails for one chat
\* (an exception of the transport, or a response other than 200) does not keep
\* the requests for the other chats from being made and the chats whose request
\* succeeds get the photo; the snapshot stays saved and last_snapshot_ts is the
\* frame's time; and the frame loop goes on: the frame is published and the
\* next iteration can be taken.
C28_ForwardFailuresIsolated ==
    /\ []((app = "helmet" /\ h_op.op \in {"frame", "raise"} /\ h_op.forwarded) =>
              /\ h_op.op = "frame"
              /\ ~h_op.tg.raised
              /\ h_op.net.token =>
                    /\ h_op.tg.attempted = CHAT_IDS
                    /\ \A i \in DOMAIN CHAT_IDS :
                          (h_op.net.post[CHAT_IDS[i]] = "ok")
                              = (\E j \in DOMAIN h_op.tg.delivered :
                                    h_op.tg.delivered[j] = CHAT_IDS[i])
              /\ ~h_op.net.token => h_op.tg = NotSent
              /\ h_op.saved
              /\ last_snapshot_ts = clock
              /\ last_frame_for_snapshot = frame_idx
              /\ h_loop.pc = "read")
    /\ []((app = "helmet" /\ frame_idx < MaxFrames) => ENABLED GenerateFramesSending)

\* the request for the first chat failed with an exception, the second chat got
\* the photo, the snapshot is saved and the rate limit restarted
C28_Witness ==
    /\ app = "helmet"
    /\ h_op.op = "frame"
    /\ h_op.forwarded /\ h_op.saved
    /\ h_op.net.token
    /\ h_op.net.post[CHAT_IDS[1]] = "error"
    /\ h_op.net.post[CHAT_IDS[2]] = "ok"
    /\ h_op.tg.attempted = CHAT_IDS
    /\ h_op.tg.delivered = <<CHAT_IDS[2]>>
    /\ last_snapshot_ts = clock
    /\ h_loop.pc = "read"
    /\ frame_idx < MaxFrames

\* C29: for every label, is_no_helmet_label and is_helmet_label each give an
\* answer and are never both true; the label is counted as no-helmet exactly
\* when the first is true, as helmet exactly when the second is, and as
\* neither (OTHER) exactly when both are false.
C29_ClassifierExclusive ==
    (app = "functions" /\ fn.arg.kind = "label") =>
        /\ is_helmet_label(fn.arg.label) \in BOOLEAN
        /\ is_no_helmet_label(fn.arg.label) \in BOOLEAN
        /\ fn.f = "classify" =>
              /\ ~(fn.out.is_helmet /\ fn.out.is_no_helmet)
              /\ fn.out.roi_app \in {"no_helmet", "helmet", "other"}
              /\ (fn.out.roi_app = "no_helmet") = fn.out.is_no_helmet
              /\ (fn.out.roi_app = "helmet") = fn.out.is_helmet
              /\ (fn.out.roi_app = "other")
                    = (~fn.out.is_helmet /\ ~fn.out.is_no_helmet)

\* a label that holds helmet and no, without no_hardhat: no-helmet only
C29_Witness ==
    /\ app = "functions"
    /\ fn.f = "classify"
    /\ Contains(s_helmet, Lower(fn.arg.label))
    /\ Contains(s_no, Lower(fn.arg.label))
    /\ ~Contains(s_no_hardhat, Lower(fn.arg.label))
    /\ fn.out.is_no_helmet /\ ~fn.out.is_helmet
    /\ fn.out.roi_app = "no_helmet"

\* C30 as stated: the first frame after detection was turned off and on again,
\* on which nothing is detected, publishes the status none, whatever was
\* detected before detection was turned off and however the two requests fell
\* between and inside the iterations of the frame loop. (The frame begins right
\* after a request and reads detection on: the request turned it on again, and
\* no detector call can have begun while it was off.)
C30_NoneAfterReenable ==
    [][(/\ HelmetFrameStep
        /\ h_loop.pc = "detect"
        /\ h_op.op = "begin"
        /\ h_loop.local.after_toggle
        /\ h_loop.local.detect_enabled
        /\ h_op'.cnt.helmet = 0 /\ h_op'.cnt.no_helmet = 0 /\ h_op'.cnt.person = 0)
           => last_status'.pass_fail = "none"]_vars

\* C31: an iteration of the frame loop that read state["detect_enabled"] as
\* False calls no detector, takes no auto snapshot (nothing saved, nothing
\* forwarded), and leaves last_pass_ts, last_fail_ts, last_snapshot_ts and the
\* two session counters as they were, also when detection is turned on while
\* the iteration is under way.
C31_DisabledFrameInert ==
    [][(HelmetFrameStep /\ h_loop.pc = "detect" /\ ~h_loop.local.detect_enabled) =>
           /\ ~h_op'.detection_ran
           /\ ~h_op'.fired /\ ~h_op'.saved /\ ~h_op'.forwarded
           /\ h_fires' = h_fires
           /\ last_pass_ts' = last_pass_ts
           /\ last_fail_ts' = last_fail_ts
           /\ last_snapshot_ts' = last_snapshot_ts
           /\ total_helmet_count' = total_helmet_count
           /\ total_no_helmet_count' = total_no_helmet_count]_vars

\* after an auto snapshot, a frame with an index the detector is called on read
\* detection off, detection was turned on while it was processed, and the frame
\* ran no detector
C31_Witness ==
    /\ app = "helmet"
    /\ h_op.op = "frame"
    /\ h_loop.pc = "read"
    /\ h_loop.local # <<>>
    /\ h_loop.local.frame_idx = frame_idx
    /\ ~h_loop.local.detect_enabled
    /\ h_loop.local.toggled
    /\ detect_enabled
    /\ frame_idx % RUN_EVERY_N = 0
    /\ ~h_op.detection_ran
    /\ h_fires > 0 /\ last_snapshot_ts = h_fire_ts

\* C32: POST /manual_snapshot changes none of the state of the pipeline: in
\* web_helmet_app.py last_snapshot_ts, last_pass_ts, last_fail_ts, the session
\* counters, the send mode, the interval and detect_enabled stay as they were,
\* and in web_truck_plat_ocr_app.py every per-camera dictionary does; the
\* auto snapshot's interval is neither used up nor restarted by it.
C32_ManualLeavesPipeline ==
    /\ [][(app = "helmet" /\ h_op'.op = "manual") =>
             /\ last_snapshot_ts' = last_snapshot_ts
             /\ last_pass_ts' = last_pass_ts
             /\ last_fail_ts' = last_fail_ts
             /\ total_helmet_count' = total_helmet_count
             /\ total_no_helmet_count' = total_no_helmet_count
             /\ send_mode' = send_mode
             /\ snapshot_interval_sec' = snapshot_interval_sec
             /\ detect_enabled' = detect_enabled
             /\ last_status' = last_status
             /\ h_fires' = h_fires]_vars
    /\ [][(app = "truck" /\ tk_op'.op = "manual") =>
             (truck' = truck /\ tk_obs' = tk_obs /\ tk_frame_idx' = tk_frame_idx)]_vars

\* a manual snapshot was saved while the auto snapshot's interval had not yet
\* elapsed, and last_snapshot_ts is still the time of the auto snapshot
C32_Witness ==
    /\ app = "helmet"
    /\ h_op.op = "manual"
    /\ h_op.saved /\ h_op.forwarded
    /\ h_fires > 0
    /\ last_snapshot_ts = h_fire_ts
    /\ clock - last_snapshot_ts <= snapshot_interval_sec
    /\ clock > last_snapshot_ts

\* C33: POST /manual_snapshot while the frame buffer is still empty (no frame
\* of the camera processed yet) is answered with ok false (the error "No frame
\* available yet"), saves nothing, forwards nothing and changes nothing; with a
\* frame in the buffer it is answered with ok true.
C33_ManualWithoutFrame ==
    /\ []((app = "helmet" /\ h_op.op = "manual") =>
              /\ h_op.ok = (last_frame_for_snapshot # NoFrame)
              /\ ~h_op.ok => (~h_op.saved /\ ~h_op.forwarded /\ h_op.tg = NotSent))
    /\ []((app = "truck" /\ tk_op.op = "manual") =>
              /\ tk_op.ok = (truck[tk_op.cam].last_frame_for_snapshot # NoFrame)
              /\ ~tk_op.ok => (~tk_op.saved /\ ~tk_op.forwarded))
    /\ [][(app = "helmet" /\ h_op'.op = "manual" /\ last_frame_for_snapshot = NoFrame) =>
             (~h_op'.ok /\ UNCHANGED <<clock, frame_idx, detect_enabled,
                  snapshot_interval_sec, send_mode, last_pass_ts, last_fail_ts,
                  last_snapshot_ts, last_frame_for_snapshot, last_helmet_count,
                  last_no_helmet_count, total_helmet_count, total_no_helmet_count,
                  last_status, h_fire_ts, h_fires, h_loop>>)]_vars
    /\ [][(app = "truck" /\ tk_op'.op = "manual"
              /\ truck[tk_op'.cam].last_frame_for_snapshot = NoFrame) =>
             (~tk_op'.ok /\ UNCHANGED <<clock, truck, tk_frame_idx, tk_obs>>)]_vars

\* a manual snapshot was refused on a camera without a frame, after detection
\* was turned off on it
C33_Witness ==
    /\ app = "truck"
    /\ tk_op.op = "manual"
    /\ ~tk_op.ok
    /\ ~tk_op.saved /\ ~tk_op.forwarded
    /\ truck[tk_op.cam].last_frame_for_snapshot = NoFrame
    /\ ~truck[tk_op.cam].detect_enabled

\* C34 as stated: a control operation that names no configured camera (an
\* unknown or missing identifier) is applied to cam1: it is never answered
\* with an error, toggles the detection of cam1 and leaves the state of every
\* other camera as it was.
C34_UnknownCamIsCam1 ==
    /\ []((app = "truck" /\ tk_op.op = "control") => (tk_op.ok /\ tk_op.cam = "cam1"))
    /\ [][(app = "truck" /\ tk_op'.op = "control") =>
             /\ truck'["cam1"].detect_enabled = ~truck["cam1"].detect_enabled
             /\ \A c \in CAMERA_IDS \ {"cam1"} : truck'[c] = truck[c]]_vars

\* the center of a detection is in the rectangle
CenterIn(det, rect) ==
    /\ rect.x1 <= det.cx /\ det.cx <= rect.x2
    /\ rect.y1 <= det.cy /\ det.cy <= rect.y2

\* C35: in the association loop of a frame a plate is acted upon (recognizer
\* called, last_plate_text assigned, auto snapshot if the interval has passed)
\* exactly when its center is in a truck box, the first such truck in detection
\* order has its center in the camera's region, and the plate's center is in
\* the region too; when the first containing truck is outside the region the
\* plate is not acted upon, whatever the later trucks are.
C35_FirstTruckDecides ==
    (app = "truck" /\ tk_op.op = "frame") =>
        \A i \in 1..Len(tk_op.assoc) :
            LET S == ContainingTrucks(tk_op.plates[i], tk_op.trucks)
                first == CHOOSE j \in S : \A k \in S : j <= k
                e == tk_op.assoc[i]
                rect == ROI_RECT[tk_op.cam]
            IN  /\ e.acted = (/\ S # {}
                               /\ CenterIn(tk_op.trucks[first], rect)
                               /\ CenterIn(tk_op.plates[i], rect))
                /\ e.acted => e.text # <<>>
                /\ ~e.acted => (e.text = <<>> /\ ~e.fired /\ ~e.saved /\ ~e.forwarded)
                /\ (i = Len(tk_op.assoc) /\ e.acted) =>
                       truck[tk_op.cam].last_plate_text = e.text

\* a plate in the region whose center is in two trucks, the first outside the
\* region and the second inside: not acted upon
C35_Witness ==
    /\ app = "truck"
    /\ tk_op.op = "frame"
    /\ \E i \in 1..Len(tk_op.assoc) :
          /\ CenterIn(tk_op.plates[i], ROI_RECT[tk_op.cam])
          /\ ContainingTrucks(tk_op.plates[i], tk_op.trucks) = {1, 2}
          /\ ~tk_op.trucks[1].in_roi
          /\ tk_op.trucks[2].in_roi
          /\ ~tk_op.assoc[i].acted
          /\ tk_op.assoc[i].truck = 1

\* C36: send_telegram_photo is called only for a snapshot that was written: in
\* web_helmet_app.py and web_truck_plat_ocr_app.py, for the auto snapshot of a
\* frame as for a manual snapshot, a failed image write is followed by no send
\* to any chat.
C36_ForwardOnlyWritten ==
    /\ (app = "helmet" /\ h_op.op \in {"frame", "manual"}) =>
          /\ h_op.forwarded => (h_op.saved /\ h_op.write_ok)
          /\ ~h_op.write_ok => (~h_op.saved /\ ~h_op.forwarded /\ h_op.tg = NotSent)
    /\ (app = "truck" /\ tk_op.op \in {"frame", "manual"}) =>
          /\ tk_op.forwarded => (tk_op.saved /\ tk_op.write_ok)
          /\ ~tk_op.write_ok => (~tk_op.saved /\ ~tk_op.forwarded)
          /\ \A i \in 1..Len(tk_op.assoc) :
                /\ tk_op.assoc[i].forwarded => tk_op.assoc[i].saved
                /\ ~tk_op.write_ok => ~tk_op.assoc[i].forwarded

\* in mode auto a truck with its plate took the auto snapshot, the image write
\* failed, and nothing was sent
C36_Witness ==
    /\ app = "truck"
    /\ tk_op.op = "frame"
    /\ tk_op.fired
    /\ ~tk_op.write_ok
    /\ truck[tk_op.cam].mode = "auto"
    /\ ~tk_op.saved /\ ~tk_op.forwarded
    /\ truck[tk_op.cam].last_snapshot_ts = clock

\* toggle_detection requests that have returned
CompletedToggles == Cardinality({i \in 1..MaxHandlers : handlers[i].pc = "done"})

\* C37: toggles are not lost: when k toggle_detection requests have returned
\* and none is under way, whatever the order of their steps, detect_enabled
\* is its initial value (True) if k is even and False if k is odd.
C37_TogglesNotLost ==
    (app = "helmet" /\ \A i \in 1..MaxHandlers : handlers[i].pc # "write") =>
        (detect_enabled <=> (CompletedToggles % 2 = 0))

\* C38: the rate limit holds also when several generate_frames loops serve the
\* same camera: whatever the order of their tests of
\* now - last_snapshot_ts > snapshot_interval_sec and their assignments of
\* last_snapshot_ts, an auto snapshot is more than snapshot_interval_sec after
\* the auto snapshot before it.
C38_OneDispatchPerIntervalAmongLoops ==
    [][(app = "helmet" /\ h_fires' > h_fires /\ h_fire_ts # None)
          => h_fire_ts' - h_fire_ts > snapshot_interval_sec]_vars

\* C39: turning detection off and on again creates no event for a truck that
\* was already counted: when detection is on again after it was turned off
\* with a truck present, and every frame the detector ran on since has the
\* truck, total_truck_events is what it was when detection was turned off.
C39_NoEventAcrossReenable ==
    app = "truck" =>
        \A c \in CAMERA_IDS :
            (truck[c].detect_enabled /\ tk_obs[c].held # None)
                => truck[c].total_truck_events = tk_obs[c].held

====
